---- MODULE Spec2Model ----
(***************************************************************************)
(* Deduction engine of the attendance agent (src/src/main.py):             *)
(* fetch_previous_deductions re-reads the deduction notices kept in the    *)
(* mail folder, send_deduction_emails groups the run's attendance records, *)
(* subtracts the history and sends one notice per qualifying group.        *)
(*                                                                         *)
(* Text is modelled as a sequence of tokens.  A one-character string is    *)
(* that character; the Korean literals of the source are written as the    *)
(* ASCII tokens below.  Days are counted in quarters of a day: the source  *)
(* computes (n // 120) * 0.25 in binary floating point, where every        *)
(* multiple of 0.25 is exact, so q quarters stands for the float q * 0.25. *)
(***************************************************************************)
EXTENDS Integers, Sequences, FiniteSets, TLC

VARIABLES
    inbox,                \* attendance records of the mailbox, most recent first
    folder,               \* deduction notices kept in the folder, most recent first
    today,                \* the calendar day
    runs,                 \* number of runs made so far
    results,              \* attendance records the last run worked on (all_records)
    response,             \* messages the last run read from the folder (response.value)
    previous_deductions,  \* history the last run built from them
    log,                  \* the last run's "total / already / remaining" lines, one per group
    outbox,               \* send_email calls of the last run, in order, with their outcome
    deductions,           \* list returned by the last run
    sent_minutes,         \* per canonical name: minutes of all notices sent so far
    sheet,                \* per canonical name: the figures of the last report
    probe,                \* argument given to the two calculation helpers
    probe_days,           \* _calculate_deduction_days(probe), in quarters
    probe_minutes,        \* _calculate_deducted_minutes of that result
    rec_start,            \* start_time of the record the grouping loop is at
    rec_end,              \* end_time of that record
    rec_minutes,          \* _calculate_minutes of the two
    emp_minutes,          \* employee_data[applicant]['minutes'] of one applicant
    emp_records,          \* number of records added to it
    cls_subject,          \* subject handed to classify
    cls_body,             \* body handed to classify
    cls_result,           \* the ClassificationResult returned, or NotClassified
    cls_target,           \* what is_target_email answered for the subject
    entry_point,          \* the entry point that was called, NoEntry before
    missing,              \* the required settings the environment does not set
    target_folder,        \* settings.target_folder
    folder_id,            \* what _get_folder_id answers for it
    pc,                   \* where the entry point is
    io,                   \* the calls made to the outside, in order
    emails,               \* the list fetch_emails returned
    position,             \* number of emails the loop has handled
    buckets,              \* results: the five lists
    run_deductions,       \* deductions of the entry point
    raised,               \* the exception that left the entry point, or None
    returned,             \* the dictionary returned, or None
    time_text,            \* body handed to _extract_time_range
    time_result,          \* what it answered, or NotExtracted
    date_text,            \* body handed to _extract_dates
    date_result,          \* what it answered, or NotExtracted
    app_body,             \* body handed to _extract_applicant
    app_sender,           \* sender display name handed to it
    app_result            \* what it answered, or NotExtracted

runVars == <<inbox, folder, today, runs, results, response, previous_deductions, log,
             outbox, deductions, sent_minutes, sheet>>

probeVars == <<probe, probe_days, probe_minutes>>

minutesVars == <<rec_start, rec_end, rec_minutes, emp_minutes, emp_records>>

classifyVars == <<cls_subject, cls_body, cls_result, cls_target>>

entryVars == <<entry_point, missing, target_folder, folder_id, pc, io, emails, position,
               buckets, run_deductions, raised, returned>>

applicantVars == <<app_body, app_sender, app_result>>

parserVars == <<time_text, time_result, date_text, date_result, applicantVars>>

\* the variables the deduction run leaves alone
sideVars == <<probeVars, minutesVars, classifyVars, entryVars, parserVars>>

vars == <<runVars, sideVars>>

-----------------------------------------------------------------------------
(* Bounds *)

MaxRecords == 2
MaxRuns == 2
MaxDay == 2
MaxDebt == 130
MaxProbe == 500
MaxLoop == 2
MaxBody == 3
MaxEmails == 2

-----------------------------------------------------------------------------
(* Tokens standing for the literals of the source *)

TAG == "[TAG]"          \* the subject marker of attendance mails and notices
KW == "DEDUCT"          \* the word that marks a deduction notice
DAYUNIT == "D"          \* the day unit written after the number of days
TIMELBL == "TIME"       \* the label of the time line and of the table headers
MINUNIT == "MIN"        \* the minute unit
NoMatch == <<"no match">>
NotClassified == [category |-> "not classified", sub_type |-> "None", confidence |-> 0]
None == "None"
NoEntry == "no entry"
NotExtracted == [outcome |-> "not extracted", value |-> <<>>]

DigitChars == <<"0", "1", "2", "3", "4", "5", "6", "7", "8", "9">>

IsDigit(c) == \E i \in 1..10 : DigitChars[i] = c

IsSpace(c) == c = " "

\* \w of the regular expressions: letters, digits and the underscore
IsWord(c) == IsDigit(c) \/ c \in {"h", "o", "G", "i", "J", "S", "_"}

-----------------------------------------------------------------------------
(* Names *)

Hong == <<"h", "o">>        \* an employee's Korean name, listed in the directory
Gildong == <<"G", "i">>     \* the English name the directory gives for it
JS == <<"J", " ", "S">>     \* a sender display name with a space, not listed

RECURSIVE LStrip(_)
LStrip(s) == IF s # <<>> /\ IsSpace(Head(s)) THEN LStrip(Tail(s)) ELSE s

RECURSIVE RStrip(_)
RStrip(s) ==
    IF s # <<>> /\ IsSpace(s[Len(s)]) THEN RStrip(SubSeq(s, 1, Len(s) - 1)) ELSE s

Strip(s) == RStrip(LStrip(s))

\* EmployeeMapper._name_map: keys and values are stripped when loaded
name_map == [k \in {Hong} |-> Strip(Gildong)]

\* a lookup without the fallback to the name itself
ToEnglishNoFallback(korean_name) ==
    LET stripped == Strip(korean_name)
    IN  IF stripped \in DOMAIN name_map THEN name_map[stripped] ELSE <<>>

to_english(korean_name) ==
    LET stripped == Strip(korean_name)
    IN  IF stripped \in DOMAIN name_map THEN name_map[stripped] ELSE stripped

\* texts a name is taken from; EmailParser._extract_applicant strips them
RawNames == {Hong, Gildong, JS, JS \o <<" ">>}

extract_applicant(raw) == Strip(raw)

Applicants == {extract_applicant(raw) : raw \in RawNames}

EnglishNames == {to_english(a) : a \in Applicants}

-----------------------------------------------------------------------------
(* Attendance records *)

\* a clock time is <<hour, minute>>
Morning == << <<9, 0>>, <<11, 0>> >>
HalfDay == << <<9, 0>>, <<13, 0>> >>
Short == << <<10, 0>>, <<10, 59>> >>

NoTime == <<>>

\* the difference without the clip at 0
MinutesUnclipped(start_time, end_time) ==
    IF start_time = NoTime \/ end_time = NoTime
    THEN 0
    ELSE (end_time[1] * 60 + end_time[2]) - (start_time[1] * 60 + start_time[2])

_calculate_minutes(start_time, end_time) ==
    IF start_time = NoTime \/ end_time = NoTime
    THEN 0
    ELSE LET start_minutes == start_time[1] * 60 + start_time[2]
             end_minutes == end_time[1] * 60 + end_time[2]
         IN  IF end_minutes - start_minutes > 0 THEN end_minutes - start_minutes ELSE 0

DEDUCTION_BLOCK == 120

\* rounds a started block up instead of dropping it
DeductionDaysRoundedUp(total_minutes) ==
    IF total_minutes < DEDUCTION_BLOCK THEN 0
    ELSE (total_minutes + DEDUCTION_BLOCK - 1) \div DEDUCTION_BLOCK

_calculate_deduction_days(total_minutes) ==
    IF total_minutes < DEDUCTION_BLOCK THEN 0 ELSE total_minutes \div DEDUCTION_BLOCK

\* takes an hour for a quarter of a day
DeductedMinutesPerHour(deduction_days) == deduction_days * 60

_calculate_deducted_minutes(deduction_days) == deduction_days * DEDUCTION_BLOCK

-----------------------------------------------------------------------------
(* Texts of a deduction notice *)

RECURSIVE format_int(_)
\* str() of a non-negative int
format_int(n) ==
    IF n < 10 THEN <<DigitChars[n + 1]>>
    ELSE format_int(n \div 10) \o <<DigitChars[(n % 10) + 1]>>

\* str() of the float q * 0.25
format_days(q) ==
    format_int(q \div 4) \o <<".">> \o
        CASE q % 4 = 0 -> <<"0">>
          [] q % 4 = 1 -> <<"2", "5">>
          [] q % 4 = 2 -> <<"5">>
          [] q % 4 = 3 -> <<"7", "5">>

deduction_subject(english_name, deduction_days) ==
    <<TAG, " ">> \o english_name \o <<"(">> \o format_days(deduction_days)
        \o <<DAYUNIT, ",", " ", KW, ")">>

Tags == {"<p>", "</p>", "<span>", "</span>", "<th>", "</th>"}

\* the lines of the HTML body that carry text the history scan can meet:
\* the reporter line, the time line and a table header
_generate_deduction_html(english_name, deduction_days, deducted_minutes) ==
    <<"<p>", "<span>", "1", ".", " ", "REPORTER", ":", "</span>", " ">>
        \o english_name
        \o <<"</p>", "<p>", "<span>", "4", ".", " ", TIMELBL, ":", "</span>", " ">>
        \o format_int(deducted_minutes)
        \o <<MINUNIT, " ", "(">> \o format_days(deduction_days)
        \o <<DAYUNIT, ")", "</p>", "<th>", "LATE", "-", TIMELBL, "(", MINUNIT, ")", "</th>">>

-----------------------------------------------------------------------------
(* Reading a notice back *)

\* re.sub(r'<[^>]+>', ' ', body_content)
strip_tags(body) == [i \in 1..Len(body) |-> IF body[i] \in Tags THEN " " ELSE body[i]]

RECURSIVE SkipSpaces(_, _)
SkipSpaces(s, i) == IF i <= Len(s) /\ IsSpace(s[i]) THEN SkipSpaces(s, i + 1) ELSE i

RECURSIVE SkipColonSpaces(_, _)
SkipColonSpaces(s, i) ==
    IF i <= Len(s) /\ (IsSpace(s[i]) \/ s[i] = ":") THEN SkipColonSpaces(s, i + 1) ELSE i

RECURSIVE SkipWord(_, _)
SkipWord(s, i) == IF i <= Len(s) /\ IsWord(s[i]) THEN SkipWord(s, i + 1) ELSE i

RECURSIVE SkipDigits(_, _)
SkipDigits(s, i) == IF i <= Len(s) /\ IsDigit(s[i]) THEN SkipDigits(s, i + 1) ELSE i

RECURSIVE parse_int(_)
\* int() of a run of digits
parse_int(digits) ==
    IF digits = <<>> THEN 0
    ELSE parse_int(SubSeq(digits, 1, Len(digits) - 1)) * 10
         + (CHOOSE d \in 0..9 : DigitChars[d + 1] = digits[Len(digits)])

\* the match of  TAG \s* (\w+) \s* \(  that starts at position i, if there is one
SubjectMatchAt(s, i) ==
    LET a == SkipSpaces(s, i + 1)
        b == SkipWord(s, a)
        c == SkipSpaces(s, b)
    IN  IF s[i] = TAG /\ b > a /\ c <= Len(s) /\ s[c] = "("
        THEN SubSeq(s, a, b - 1)
        ELSE NoMatch

\* re.search(r'\[TAG\]\s*(\w+)\s*\(', subject).group(1): the leftmost match
subject_match(s) ==
    LET hits == {i \in 1..Len(s) : SubjectMatchAt(s, i) # NoMatch}
    IN  IF hits = {} THEN NoMatch
        ELSE SubjectMatchAt(s, CHOOSE i \in hits : \A j \in hits : i <= j)

\* the match of  TIME [:\s]* (\d+) \s* MIN  that starts at position i, if there is one
TimeMatchAt(s, i) ==
    LET a == SkipColonSpaces(s, i + 1)
        b == SkipDigits(s, a)
        c == SkipSpaces(s, b)
    IN  IF s[i] = TIMELBL /\ b > a /\ c <= Len(s) /\ s[c] = MINUNIT
        THEN SubSeq(s, a, b - 1)
        ELSE NoMatch

\* re.search(r'TIME[:\s]*(\d+)\s*MIN', body_text).group(1): the leftmost match
time_match(s) ==
    LET hits == {i \in 1..Len(s) : TimeMatchAt(s, i) # NoMatch}
    IN  IF hits = {} THEN NoMatch
        ELSE TimeMatchAt(s, CHOOSE i \in hits : \A j \in hits : i <= j)

Contains(s, tok) == \E i \in 1..Len(s) : s[i] = tok

EmptyHistory == [n \in {} |-> <<>>]

\* deducted_by_name[name].append(entry) on a defaultdict(list)
AppendEntry(hist, name, entry) ==
    [n \in DOMAIN hist \cup {name} |->
        IF n = name
        THEN (IF n \in DOMAIN hist THEN hist[n] ELSE <<>>) \o <<entry>>
        ELSE hist[n]]

NoDate == 0

\* dates every message with the day of the scan
DateStrOfScan(msg, now) == now

\* date_str: the day the message was received, the current day when it has none
DateStr(msg, now) ==
    IF msg.received_date_time # NoDate THEN msg.received_date_time ELSE now

RECURSIVE ScanMessagesNoDedup(_, _, _, _, _)
\* the loop without the check against seen_deductions
ScanMessagesNoDedup(msgs, i, seen_deductions, deducted_by_name, now) ==
    IF i > Len(msgs) THEN deducted_by_name
    ELSE LET msg == msgs[i]
             english_name == subject_match(msg.subject)
             minutes == time_match(strip_tags(msg.body))
         IN  IF \/ ~Contains(msg.subject, KW)
                \/ english_name = NoMatch
                \/ minutes = NoMatch
             THEN ScanMessagesNoDedup(msgs, i + 1, seen_deductions,
                                      deducted_by_name, now)
             ELSE ScanMessagesNoDedup(msgs, i + 1, seen_deductions,
                      AppendEntry(deducted_by_name, english_name,
                          [date |-> DateStr(msg, now),
                           minutes |-> parse_int(minutes)]), now)

\* the entry of the same day takes the minutes of the duplicate
OverwriteEntry(hist, name, entry) ==
    [n \in DOMAIN hist |->
        IF n = name
        THEN [k \in 1..Len(hist[n]) |->
                 IF hist[n][k].date = entry.date THEN entry ELSE hist[n][k]]
        ELSE hist[n]]

RECURSIVE ScanMessagesLastWins(_, _, _, _, _)
\* the loop with a duplicate replacing the entry already kept
ScanMessagesLastWins(msgs, i, seen_deductions, deducted_by_name, now) ==
    IF i > Len(msgs) THEN deducted_by_name
    ELSE LET msg == msgs[i]
             english_name == subject_match(msg.subject)
             minutes == time_match(strip_tags(msg.body))
             deduction_key == <<english_name, DateStr(msg, now)>>
             entry == [date |-> DateStr(msg, now), minutes |-> parse_int(minutes)]
         IN  IF \/ ~Contains(msg.subject, KW)
                \/ english_name = NoMatch
                \/ minutes = NoMatch
             THEN ScanMessagesLastWins(msgs, i + 1, seen_deductions,
                                       deducted_by_name, now)
             ELSE IF deduction_key \in seen_deductions
             THEN ScanMessagesLastWins(msgs, i + 1, seen_deductions,
                      OverwriteEntry(deducted_by_name, english_name, entry), now)
             ELSE ScanMessagesLastWins(msgs, i + 1,
                      seen_deductions \cup {deduction_key},
                      AppendEntry(deducted_by_name, english_name, entry), now)

RECURSIVE ScanMessages(_, _, _, _, _)
\* the loop over response.value from message i on
ScanMessages(msgs, i, seen_deductions, deducted_by_name, now) ==
    IF i > Len(msgs) THEN deducted_by_name
    ELSE LET msg == msgs[i]
             english_name == subject_match(msg.subject)
             minutes == time_match(strip_tags(msg.body))
             deduction_key == <<english_name, DateStr(msg, now)>>
         IN  IF \/ ~Contains(msg.subject, KW)
                \/ english_name = NoMatch
                \/ minutes = NoMatch
                \/ deduction_key \in seen_deductions
             THEN ScanMessages(msgs, i + 1, seen_deductions, deducted_by_name, now)
             ELSE ScanMessages(msgs, i + 1, seen_deductions \cup {deduction_key},
                      AppendEntry(deducted_by_name, english_name,
                          [date |-> DateStr(msg, now),
                           minutes |-> parse_int(minutes)]), now)

fetch_previous_deductions(msgs, now) ==
    IF msgs = <<>> THEN EmptyHistory ELSE ScanMessages(msgs, 1, {}, EmptyHistory, now)

-----------------------------------------------------------------------------
(* The deduction run *)

TEST_DEDUCTION_EMAIL == <<"TEST_DEDUCTION_EMAIL">>
DEDUCTION_CC_EMAIL == <<"DEDUCTION_CC_EMAIL">>

\* the attendance mails that can arrive: the text the applicant is taken
\* from, the sub-type the classifier gives and the time range the parser gives
Mails == { <<Hong, "LATE_ARRIVAL", Morning>>,
           <<Hong, "OUTING", Short>>,
           <<Hong, "EARLY_LEAVE", HalfDay>>,
           <<Gildong, "LATE_ARRIVAL", Morning>>,
           <<Gildong, "OUTING", Short>>,
           <<JS, "EARLY_LEAVE", Morning>>,
           <<JS \o <<" ">>, "LATE_ARRIVAL", Short>> }

\* results[bucket]: the records of one sub-type, in the order they were fetched
Bucket(records, sub_type) ==
    LET InBucket(r) == r.sub_type = sub_type
    IN  SelectSeq(records, InBucket)

\* results['late_arrivals'] + results['outings'] + results['early_leaves']
AllRecords(records) ==
    Bucket(records, "LATE_ARRIVAL") \o Bucket(records, "OUTING")
        \o Bucket(records, "EARLY_LEAVE")

RECURSIVE KeyOrder(_, _)
\* the keys of employee_data in insertion order: applicants by first appearance
KeyOrder(records, seen) ==
    IF records = <<>> THEN <<>>
    ELSE IF Head(records).applicant \in seen
         THEN KeyOrder(Tail(records), seen)
         ELSE <<Head(records).applicant>>
                  \o KeyOrder(Tail(records), seen \cup {Head(records).applicant})

RECURSIVE SumRecordMinutes(_)
SumRecordMinutes(records) ==
    IF records = <<>> THEN 0
    ELSE _calculate_minutes(Head(records).start_time, Head(records).end_time)
         + SumRecordMinutes(Tail(records))

\* employee_data[applicant]: the minutes and the records of one key
EmployeeData(all_records, applicant) ==
    LET Mine(r) == r.applicant = applicant
        records == SelectSeq(all_records, Mine)
    IN  [minutes |-> SumRecordMinutes(records), records |-> records]

RECURSIVE SumHistory(_)
\* sum(d['minutes'] for d in deduction_history)
SumHistory(deduction_history) ==
    IF deduction_history = <<>> THEN 0
    ELSE Head(deduction_history).minutes + SumHistory(Tail(deduction_history))

\* previous_deductions.get(english_name, [])
HistoryOf(hist, english_name) ==
    IF english_name \in DOMAIN hist THEN hist[english_name] ELSE <<>>

\* takes the size of the difference, whatever its sign
DecisionOnDistance(korean_name, all_records, hist) ==
    LET total_minutes == EmployeeData(all_records, korean_name).minutes
        english_name == to_english(korean_name)
        already_deducted == SumHistory(HistoryOf(hist, english_name))
        remaining_for_deduction == total_minutes - already_deducted
        distance == IF remaining_for_deduction < 0
                    THEN 0 - remaining_for_deduction ELSE remaining_for_deduction
        deduction_days == _calculate_deduction_days(distance)
    IN  [korean_name |-> korean_name,
         english_name |-> english_name,
         total_minutes |-> total_minutes,
         already_deducted |-> already_deducted,
         remaining_for_deduction |-> remaining_for_deduction,
         deduction_days |-> deduction_days,
         deducted_minutes |-> _calculate_deducted_minutes(deduction_days)]

\* what one pass of the loop over employee_data computes for a key
Decision(korean_name, all_records, hist) ==
    LET total_minutes == EmployeeData(all_records, korean_name).minutes
        english_name == to_english(korean_name)
        already_deducted == SumHistory(HistoryOf(hist, english_name))
        remaining_for_deduction == total_minutes - already_deducted
        deduction_days == _calculate_deduction_days(remaining_for_deduction)
    IN  [korean_name |-> korean_name,
         english_name |-> english_name,
         total_minutes |-> total_minutes,
         already_deducted |-> already_deducted,
         remaining_for_deduction |-> remaining_for_deduction,
         deduction_days |-> deduction_days,
         deducted_minutes |-> _calculate_deducted_minutes(deduction_days)]

Decisions(records, hist) ==
    LET all_records == AllRecords(records)
        keys == KeyOrder(all_records, {})
    IN  [i \in 1..Len(keys) |-> Decision(keys[i], all_records, hist)]

\* looks at the accumulated minutes and forgets the history
QualifiesOnTotal(d) == d.total_minutes >= DEDUCTION_BLOCK

Qualifies(d) == d.deduction_days > 0

\* the send_email call made for a qualifying key
\* str.lower on the letters of the names
lower(name) ==
    [i \in 1..Len(name) |->
        CASE name[i] = "G" -> "g"
          [] name[i] = "J" -> "j"
          [] name[i] = "S" -> "s"
          [] OTHER -> name[i]]

\* the address made from the name, whatever the mode
RecipientOfEmployee(d, test_mode) == lower(d.english_name) \o <<"@envision.co.kr">>

\* recipient: the test address in test mode, the employee's otherwise
Recipient(d, test_mode) ==
    IF test_mode THEN TEST_DEDUCTION_EMAIL
    ELSE lower(d.english_name) \o <<"@envision.co.kr">>

SendCall(d, test_mode, success) ==
    [to |-> <<Recipient(d, test_mode)>>,
     cc |-> DEDUCTION_CC_EMAIL,
     subject |-> deduction_subject(d.english_name, d.deduction_days),
     body |-> _generate_deduction_html(d.english_name, d.deduction_days,
                                       d.deducted_minutes),
     success |-> success]

\* the entry with email_sent set whatever the send answered
DeductionEntrySent(d, success) ==
    [korean_name |-> d.korean_name,
     english_name |-> d.english_name,
     total_minutes |-> d.total_minutes,
     deduction_days |-> d.deduction_days,
     deducted_minutes |-> d.deducted_minutes,
     email_sent |-> TRUE]

\* the entry appended to the returned list for a qualifying key
DeductionEntry(d, success) ==
    [korean_name |-> d.korean_name,
     english_name |-> d.english_name,
     total_minutes |-> d.total_minutes,
     deduction_days |-> d.deduction_days,
     deducted_minutes |-> d.deducted_minutes,
     email_sent |-> success]

\* the notices of all the calls, the failed ones included
DeliveredAll(calls, day) ==
    [i \in 1..Len(calls) |->
        [subject |-> calls[Len(calls) + 1 - i].subject,
         body |-> calls[Len(calls) + 1 - i].body,
         received_date_time |-> day]]

RECURSIVE Delivered(_, _)
\* the notices of the calls that succeeded, the last one sent first
Delivered(calls, day) ==
    IF calls = <<>> THEN <<>>
    ELSE Delivered(Tail(calls), day)
         \o (IF Head(calls).success
             THEN <<[subject |-> Head(calls).subject,
                     body |-> Head(calls).body,
                     received_date_time |-> day]>>
             ELSE <<>>)

RECURSIVE SentTo(_, _)
\* minutes of the successful entries of a returned list that name english_name
SentTo(entries, english_name) ==
    IF entries = <<>> THEN 0
    ELSE (IF Head(entries).email_sent /\ Head(entries).english_name = english_name
          THEN Head(entries).deducted_minutes ELSE 0)
         + SentTo(Tail(entries), english_name)

send_deduction_emails(records, hist, test_mode, failing) ==
    LET all_decisions == Decisions(records, hist)
        qualifying == SelectSeq(all_decisions, Qualifies)
    IN  [log |-> all_decisions,
         outbox |-> [i \in 1..Len(qualifying) |->
                        SendCall(qualifying[i], test_mode,
                                 qualifying[i].korean_name \notin failing)],
         deductions |-> [i \in 1..Len(qualifying) |->
                            DeductionEntry(qualifying[i],
                                           qualifying[i].korean_name \notin failing)]]

-----------------------------------------------------------------------------
(* The sheet of the report *)

EmptySheet == [n \in {} |-> 0]

\* the records of a list whose applicant has the canonical name english_name
RecordsOf(records, english_name) ==
    LET Named(r) == to_english(r.applicant) = english_name
    IN  SelectSeq(records, Named)

\* the figures of the rows of one name: the generator has its own copies of
\* _calculate_minutes and _calculate_deduction_days, with the same code
SheetRow(name, late_arrivals, outings, early_leaves, hist) ==
    LET already_deducted == SumHistory(HistoryOf(hist, name))
        total_minutes == SumRecordMinutes(RecordsOf(late_arrivals, name))
                         + SumRecordMinutes(RecordsOf(early_leaves, name))
                         + SumRecordMinutes(RecordsOf(outings, name))
        remaining_for_new_deduction == total_minutes - already_deducted
        new_deduction_days == _calculate_deduction_days(remaining_for_new_deduction)
        new_deducted_minutes == IF new_deduction_days > 0
                                THEN new_deduction_days * DEDUCTION_BLOCK ELSE 0
        total_deducted == already_deducted + new_deducted_minutes
    IN  [total_minutes |-> total_minutes,
         already_deducted |-> already_deducted,
         new_deduction_days |-> new_deduction_days,
         new_deducted_minutes |-> new_deducted_minutes,
         remaining_minutes |-> total_minutes - total_deducted]

\* the rows are grouped by the canonical name of the applicants
_create_attendance_combined_sheet(late_arrivals, outings, early_leaves, hist) ==
    LET records == late_arrivals \o early_leaves \o outings
        names == {to_english(records[i].applicant) : i \in 1..Len(records)}
    IN  [name \in names |->
            SheetRow(name, late_arrivals, outings, early_leaves, hist)]

-----------------------------------------------------------------------------
(* Actions *)

RunInit ==
    /\ inbox = <<>>
    /\ folder = <<>>
    /\ today = 1
    /\ runs = 0
    /\ results = <<>>
    /\ response = <<>>
    /\ previous_deductions = EmptyHistory
    /\ log = <<>>
    /\ outbox = <<>>
    /\ deductions = <<>>
    /\ sent_minutes = [n \in EnglishNames |-> 0]
    /\ sheet = EmptySheet

ProbeInit ==
    /\ probe = 0
    /\ probe_days = 0
    /\ probe_minutes = 0

\* employee_data[applicant] as the defaultdict creates it, no record read yet
MinutesInit ==
    /\ rec_start = NoTime
    /\ rec_end = NoTime
    /\ rec_minutes = 0
    /\ emp_minutes = 0
    /\ emp_records = 0

\* no message handed to the classifier
ClassifyInit ==
    /\ cls_subject = <<>>
    /\ cls_body = <<>>
    /\ cls_result = NotClassified
    /\ cls_target = FALSE

\* results as the entry points create it
EmptyBuckets ==
    [vacations |-> <<>>, late_arrivals |-> <<>>, outings |-> <<>>,
     early_leaves |-> <<>>, unclassified |-> <<>>]

\* no entry point called
EntryInit ==
    /\ entry_point = NoEntry
    /\ missing = {}
    /\ target_folder = "Inbox"
    /\ folder_id = None
    /\ pc = "idle"
    /\ io = <<>>
    /\ emails = <<>>
    /\ position = 0
    /\ buckets = EmptyBuckets
    /\ run_deductions = <<>>
    /\ raised = None
    /\ returned = None

\* no body handed to the parser
ParserInit ==
    /\ time_text = <<>>
    /\ time_result = NotExtracted
    /\ date_text = <<>>
    /\ date_result = NotExtracted
    /\ app_body = <<>>
    /\ app_sender = <<>>
    /\ app_result = NotExtracted

Init ==
    /\ RunInit
    /\ ProbeInit
    /\ MinutesInit
    /\ ClassifyInit
    /\ EntryInit
    /\ ParserInit

\* an attendance mail arrives and is the first one the next fetch returns
ReceiveAttendance(mail) ==
    /\ Len(inbox) < MaxRecords
    /\ inbox' = <<[applicant |-> extract_applicant(mail[1]),
                   sub_type |-> mail[2],
                   start_time |-> mail[3][1],
                   end_time |-> mail[3][2]]>> \o inbox
    /\ UNCHANGED <<folder, today, runs, results, response, previous_deductions, log,
                   outbox, deductions, sent_minutes, sheet>>
    /\ UNCHANGED sideVars

NextDay ==
    /\ today < MaxDay
    /\ today' = today + 1
    /\ UNCHANGED <<inbox, folder, runs, results, response, previous_deductions, log,
                   outbox, deductions, sent_minutes, sheet>>
    /\ UNCHANGED sideVars

\* one run: the history is read, the deductions are computed and the notices
\* sent; the sends to the keys in failing raise inside send_email
Run(failing) ==
    /\ runs < MaxRuns
    /\ LET hist == fetch_previous_deductions(folder, today)
           out == send_deduction_emails(inbox, hist, TRUE, failing)
       IN  /\ failing \subseteq {out.deductions[i].korean_name :
                                    i \in 1..Len(out.deductions)}
           /\ results' = AllRecords(inbox)
           /\ response' = folder
           /\ previous_deductions' = hist
           /\ log' = out.log
           /\ outbox' = out.outbox
           /\ deductions' = out.deductions
           /\ folder' = Delivered(out.outbox, today) \o folder
           /\ sent_minutes' = [n \in EnglishNames |->
                                  sent_minutes[n] + SentTo(out.deductions, n)]
           /\ sheet' = _create_attendance_combined_sheet(
                            Bucket(inbox, "LATE_ARRIVAL"), Bucket(inbox, "OUTING"),
                            Bucket(inbox, "EARLY_LEAVE"), hist)
    /\ runs' = runs + 1
    /\ UNCHANGED <<inbox, today>>
    /\ UNCHANGED sideVars

Next ==
    \/ \E mail \in Mails : ReceiveAttendance(mail)
    \/ NextDay
    \/ \E failing \in SUBSET Applicants : Run(failing)

Spec == Init /\ [][Next]_vars

\* the calculation helpers applied to one remaining-minute count
Calculate(r) ==
    /\ probe' = r
    /\ probe_days' = _calculate_deduction_days(r)
    /\ probe_minutes' = _calculate_deducted_minutes(_calculate_deduction_days(r))
    /\ UNCHANGED <<runVars, minutesVars, classifyVars, entryVars, parserVars>>

CalcNext == \E r \in (0 - MaxDebt)..MaxProbe : Calculate(r)

CalcSpec == Init /\ [][CalcNext]_vars

-----------------------------------------------------------------------------
(* Properties *)

RECURSIVE SumCanonical(_, _)
\* minutes of the records whose applicant has the canonical name english_name
SumCanonical(records, english_name) ==
    IF records = <<>> THEN 0
    ELSE (IF to_english(Head(records).applicant) = english_name
          THEN _calculate_minutes(Head(records).start_time, Head(records).end_time)
          ELSE 0)
         + SumCanonical(Tail(records), english_name)

\* C1: the minutes of all notices sent for an employee never exceed the
\* attendance minutes accumulated for that employee, over any sequence of
\* runs, several of them on one day included.
C1_SentWithinAccumulated ==
    \A n \in EnglishNames : sent_minutes[n] <= SumCanonical(inbox, n)

\* C2: the deduction is 0 quarter-days below 120 minutes and the number of
\* complete 120-minute blocks from 120 minutes on; 119 gives 0, 120 and 239
\* give one quarter, 240 gives two.
C2_DeductionDays ==
    /\ probe < 120 => probe_days = 0
    /\ probe >= 120 => /\ probe_days * 120 <= probe
                       /\ probe < (probe_days + 1) * 120
    /\ probe = 119 => probe_days = 0
    /\ probe = 120 => probe_days = 1
    /\ probe = 239 => probe_days = 1
    /\ probe = 240 => probe_days = 2

C2_Witness == probe = 239 /\ probe_days = 1

\* C3 as claimed: the minutes recomputed from a positive deduction are the
\* minute count the deduction was derived from.
C3_RoundTripExact == probe_days > 0 => probe_minutes = probe

\* C3: the minutes recomputed from a positive deduction are the largest
\* multiple of 120 not above the minute count it was derived from, and that
\* count itself when it is a multiple of 120.
C3_RoundTripBlocks ==
    probe_days > 0 =>
        /\ probe_minutes % 120 = 0
        /\ probe_minutes <= probe
        /\ probe < probe_minutes + 120
        /\ (probe % 120 = 0 => probe_minutes = probe)

C3_Witness == probe = 239 /\ probe_days = 1 /\ probe_minutes = 120

\* the entries of the returned list that belong to the group korean_name
EntriesOf(korean_name) ==
    {j \in 1..Len(deductions) : deductions[j].korean_name = korean_name}

\* C4: a group whose history exceeds the minutes of the run (negative
\* remainder) gets a deduction of zero, no notice and no entry in the
\* returned list.
C4_NegativeRemaining ==
    /\ Len(outbox) = Len(deductions)
    /\ \A i \in 1..Len(log) :
           log[i].remaining_for_deduction < 0 =>
               /\ log[i].already_deducted > log[i].total_minutes
               /\ log[i].deduction_days = 0
               /\ EntriesOf(log[i].korean_name) = {}

C4_Witness ==
    \E i \in 1..Len(log) :
        /\ log[i].remaining_for_deduction < 0 - DEDUCTION_BLOCK
        /\ Len(outbox) = 0

\* the lines of the log that led to a notice, in order
QualifyingLines ==
    LET Positive(d) == d.deduction_days > 0
    IN  SelectSeq(log, Positive)

\* C5: a notice is sent for a group exactly when its deduction is positive;
\* the subject carries the canonical name and the days, and the minutes read
\* back from the body are the complete 120-minute blocks of the remainder.
C5_NoticeIffPositive ==
    /\ Len(outbox) = Len(QualifyingLines)
    /\ Len(deductions) = Len(QualifyingLines)
    /\ \A j \in 1..Len(QualifyingLines) :
           LET d == QualifyingLines[j]
               minutes_text == time_match(strip_tags(outbox[j].body))
           IN  /\ deductions[j].korean_name = d.korean_name
               /\ outbox[j].subject =
                      <<TAG, " ">> \o d.english_name \o <<"(">>
                          \o format_days(d.deduction_days)
                          \o <<DAYUNIT, ",", " ", KW, ")">>
               /\ d.english_name = to_english(d.korean_name)
               /\ minutes_text # NoMatch
               /\ parse_int(minutes_text) =
                      (d.remaining_for_deduction \div 120) * 120
    /\ \A i \in 1..Len(log) :
           log[i].deduction_days > 0 <=> log[i].remaining_for_deduction >= 120

C5_Witness ==
    /\ Len(outbox) = 1
    /\ \E i, j \in 1..Len(log) :
           /\ log[i].deduction_days = 0
           /\ log[i].total_minutes > 0
           /\ log[j].deduction_days = 2

\* C6: the records are grouped by canonical name, so one run takes at most
\* one decision, and sends at most one notice, per canonical name.
C6_OneDecisionPerKey ==
    /\ \A i, j \in 1..Len(log) :
           log[i].english_name = log[j].english_name => i = j
    /\ \A i, j \in 1..Len(deductions) :
           deductions[i].english_name = deductions[j].english_name => i = j

RECURSIVE SumApplicant(_, _)
\* minutes of the records whose applicant is the literal name
SumApplicant(records, name) ==
    IF records = <<>> THEN 0
    ELSE (IF Head(records).applicant = name
          THEN _calculate_minutes(Head(records).start_time, Head(records).end_time)
          ELSE 0)
         + SumApplicant(Tail(records), name)

Unlisted(name) == name \notin DOMAIN name_map

\* C7: a name the directory does not list comes back unchanged, and all the
\* records of that applicant form one group whose history is looked up under
\* that literal name.
C7_UnlistedName ==
    /\ \A r \in 1..Len(results) :
           Unlisted(results[r].applicant) =>
               Cardinality({i \in 1..Len(log) :
                               log[i].korean_name = results[r].applicant}) = 1
    /\ \A i \in 1..Len(log) :
           Unlisted(log[i].korean_name) =>
               /\ log[i].english_name = log[i].korean_name
               /\ log[i].total_minutes = SumApplicant(results, log[i].korean_name)
               /\ log[i].already_deducted =
                      SumHistory(HistoryOf(previous_deductions, log[i].korean_name))

C7_Witness ==
    \E i \in 1..Len(log) :
        /\ Unlisted(log[i].korean_name)
        /\ Cardinality({r \in 1..Len(results) :
                           results[r].applicant = log[i].korean_name}) = 2
        /\ log[i].already_deducted > 0
        /\ log[i].total_minutes > log[i].already_deducted

\* a message the history scan takes for a deduction notice
IsNotice(msg) ==
    /\ Contains(msg.subject, KW)
    /\ subject_match(msg.subject) # NoMatch
    /\ time_match(strip_tags(msg.body)) # NoMatch

NoticeKey(msg) == <<subject_match(msg.subject), msg.received_date_time>>

NoticeMinutes(msg) == parse_int(time_match(strip_tags(msg.body)))

\* the positions of the notices read by the last run
NoticesRead == {i \in 1..Len(response) : IsNotice(response[i])}

\* a notice read after another one of the same name and day
IsDuplicate(i) ==
    /\ i \in NoticesRead
    /\ \E j \in NoticesRead : j < i /\ NoticeKey(response[j]) = NoticeKey(response[i])

\* C8: the history holds at most one entry per name and day, and one for
\* every name and day that has a notice.
C8_OneEntryPerDay ==
    /\ \A n \in DOMAIN previous_deductions :
           \A i, j \in 1..Len(previous_deductions[n]) :
               previous_deductions[n][i].date = previous_deductions[n][j].date
                   => i = j
    /\ \A i \in NoticesRead :
           /\ NoticeKey(response[i])[1] \in DOMAIN previous_deductions
           /\ \E k \in 1..Len(previous_deductions[NoticeKey(response[i])[1]]) :
                  previous_deductions[NoticeKey(response[i])[1]][k].date
                      = NoticeKey(response[i])[2]

C8_Witness ==
    /\ \E i \in NoticesRead : IsDuplicate(i)
    /\ \E n \in DOMAIN previous_deductions : Len(previous_deductions[n]) = 1

RemoveAt(s, i) == SubSeq(s, 1, i - 1) \o SubSeq(s, i + 1, Len(s))

\* C9: of several notices for one name and day the entry kept carries the
\* minutes of the first one scanned, the most recent one, and a duplicate
\* scanned later leaves the history as it is without it.
C9_FirstScannedWins ==
    /\ \A n \in DOMAIN previous_deductions :
           \A k \in 1..Len(previous_deductions[n]) :
               LET key == <<n, previous_deductions[n][k].date>>
                   same == {i \in NoticesRead : NoticeKey(response[i]) = key}
               IN  /\ same # {}
                   /\ previous_deductions[n][k].minutes =
                          NoticeMinutes(response[CHOOSE i \in same :
                                                     \A j \in same : i <= j])
    /\ \A i \in NoticesRead :
           IsDuplicate(i) =>
               fetch_previous_deductions(RemoveAt(response, i), today)
                   = previous_deductions

C9_Witness ==
    \E i, j \in NoticesRead :
        /\ i < j
        /\ NoticeKey(response[i]) = NoticeKey(response[j])
        /\ NoticeMinutes(response[i]) # NoticeMinutes(response[j])
        /\ \E k \in 1..Len(previous_deductions[NoticeKey(response[i])[1]]) :
               previous_deductions[NoticeKey(response[i])[1]][k] =
                   [date |-> NoticeKey(response[i])[2],
                    minutes |-> NoticeMinutes(response[i])]

-----------------------------------------------------------------------------
(* Minutes of the attendance records of one applicant *)

\* the clock times a record can carry, and none
ClockTimes == {NoTime, <<0, 0>>, <<0, 30>>, <<9, 0>>, <<11, 0>>, <<23, 0>>, <<23, 59>>}

\* one pass of the loop over all_records for the applicant
AddRecordMinutes(start_time, end_time) ==
    /\ emp_records < MaxLoop
    /\ rec_start' = start_time
    /\ rec_end' = end_time
    /\ rec_minutes' = _calculate_minutes(start_time, end_time)
    /\ emp_minutes' = emp_minutes + _calculate_minutes(start_time, end_time)
    /\ emp_records' = emp_records + 1
    /\ UNCHANGED <<runVars, probeVars, classifyVars, entryVars, parserVars>>

MinutesNext == \E start_time \in ClockTimes, end_time \in ClockTimes :
                   AddRecordMinutes(start_time, end_time)

MinutesSpec == Init /\ [][MinutesNext]_vars

MinuteOfDay(t) == t[1] * 60 + t[2]

\* C11: the minutes of a record are the end minute-of-day less the start
\* minute-of-day, 0 when that is negative (a record spanning midnight) or a
\* time is missing, and the accumulated minutes of an applicant are never
\* negative.
C11_RecordMinutes ==
    /\ (rec_start = NoTime \/ rec_end = NoTime) => rec_minutes = 0
    /\ (rec_start # NoTime /\ rec_end # NoTime) =>
           /\ MinuteOfDay(rec_end) >= MinuteOfDay(rec_start) =>
                  rec_minutes = MinuteOfDay(rec_end) - MinuteOfDay(rec_start)
           /\ MinuteOfDay(rec_end) < MinuteOfDay(rec_start) => rec_minutes = 0
    /\ rec_minutes >= 0
    /\ emp_minutes >= rec_minutes

C11_Witness ==
    /\ rec_start = <<23, 0>>
    /\ rec_end = <<0, 30>>
    /\ rec_minutes = 0
    /\ emp_records = 2
    /\ emp_minutes = 120

-----------------------------------------------------------------------------
(* Classification of a message by subject and body *)

VACTAG == "[VAC]"       \* the subject marker of vacation mails

\* the words of the body vocabulary, one token for each Korean word
CHULGEUN == "chulgeun"
JIYEON == "jiyeon"
JIGAK == "jigak"
NEUJEUN == "neujeun"
OECHUL == "oechul"
OEGEUN == "oegeun"
JARI == "jari"
BIUM == "bium"
JOGI == "jogi"
TOEGEUN == "toegeun"
JOTOE == "jotoe"
ILJJIK == "iljjik"
DANGJIK == "dangjik"
HYUSIK == "hyusik"
JEONIL == "jeonil"
YAGEUN == "yageun"

\* a pattern is its words; spaced is TRUE when \s* stands between them
Pat(words, spaced) == [words |-> words, spaced |-> spaced]

\* the groups in the order of the dictionary
SUBTYPE_PATTERNS ==
    << [subtype |-> "LATE_ARRIVAL",
        patterns |-> << Pat(<<CHULGEUN, JIYEON>>, TRUE), Pat(<<JIGAK>>, FALSE),
                        Pat(<<NEUJEUN, CHULGEUN>>, TRUE),
                        Pat(<<CHULGEUN, JIYEON>>, FALSE) >>],
       [subtype |-> "OUTING",
        patterns |-> << Pat(<<OECHUL>>, FALSE), Pat(<<OEGEUN>>, FALSE),
                        Pat(<<JARI, BIUM>>, TRUE) >>],
       [subtype |-> "EARLY_LEAVE",
        patterns |-> << Pat(<<JOGI, TOEGEUN>>, TRUE), Pat(<<JOTOE>>, FALSE),
                        Pat(<<ILJJIK, TOEGEUN>>, TRUE),
                        Pat(<<JOGI, TOEGEUN>>, FALSE) >>] >>

EXCLUDED_PATTERNS ==
    << Pat(<<DANGJIK, HYUSIK>>, TRUE), Pat(<<DANGJIK, HYUSIK>>, FALSE),
       Pat(<<JEONIL, YAGEUN>>, TRUE), Pat(<<JEONIL, YAGEUN>>, FALSE) >>

\* the pattern matches the text from position i on
MatchAt(pattern, text, i) ==
    /\ text[i] = pattern.words[1]
    /\ Len(pattern.words) = 2 =>
           LET j == IF pattern.spaced THEN SkipSpaces(text, i + 1) ELSE i + 1
           IN  j <= Len(text) /\ text[j] = pattern.words[2]

re_search(pattern, text) == \E i \in 1..Len(text) : MatchAt(pattern, text, i)

AnyPattern(patterns, text) ==
    \E k \in 1..Len(patterns) : re_search(patterns[k], text)

\* the excluded check left out
NeverExcluded(body) == FALSE

_is_excluded_type(body) == AnyPattern(EXCLUDED_PATTERNS, body)

RECURSIVE SubtypeFrom(_, _)
\* the loop over the groups from group g on: the first group with a match
SubtypeFrom(g, body) ==
    IF g > Len(SUBTYPE_PATTERNS) THEN "UNKNOWN"
    ELSE IF AnyPattern(SUBTYPE_PATTERNS[g].patterns, body)
         THEN SUBTYPE_PATTERNS[g].subtype
         ELSE SubtypeFrom(g + 1, body)

RECURSIVE SubtypeLastFrom(_, _)
\* the last group with a match
SubtypeLastFrom(g, body) ==
    IF g < 1 THEN "UNKNOWN"
    ELSE IF AnyPattern(SUBTYPE_PATTERNS[g].patterns, body)
         THEN SUBTYPE_PATTERNS[g].subtype
         ELSE SubtypeLastFrom(g - 1, body)

\* the groups tried from the last to the first
SubtypeLastGroupWins(body) == SubtypeLastFrom(Len(SUBTYPE_PATTERNS), body)

_classify_attendance_subtype(body) == SubtypeFrom(1, body)

\* confidence is counted in tenths: 10 is 1.0
ClassificationResult(category, sub_type, confidence) ==
    [category |-> category, sub_type |-> sub_type, confidence |-> confidence]

\* the attendance marker looked for before the vacation marker
ClassifyAttendanceFirst(subject, body) ==
    IF Contains(subject, TAG)
    THEN ClassificationResult("ATTENDANCE", _classify_attendance_subtype(body), 9)
    ELSE IF Contains(subject, VACTAG)
         THEN ClassificationResult("VACATION", None, 10)
         ELSE ClassificationResult("UNKNOWN", None, 0)

\* only the attendance marker looked for
IsTargetAttendanceOnly(subject) == Contains(subject, TAG)

is_target_email(subject) == Contains(subject, VACTAG) \/ Contains(subject, TAG)

classify(subject, body) ==
    IF Contains(subject, VACTAG)
    THEN ClassificationResult("VACATION", None, 10)
    ELSE IF Contains(subject, TAG)
         THEN IF _is_excluded_type(body)
              THEN ClassificationResult("UNKNOWN", None, 0)
              ELSE LET sub_type == _classify_attendance_subtype(body)
                   IN  ClassificationResult("ATTENDANCE", sub_type,
                                            IF sub_type # "UNKNOWN" THEN 9 ELSE 5)
         ELSE ClassificationResult("UNKNOWN", None, 0)

-----------------------------------------------------------------------------
(* The run entry points *)

EntryPoints == {"process_attendance_emails", "send_deduction_emails_only",
                "send_report_only"}

\* the settings validate asks for
RequiredSettings == {"AZURE_TENANT_ID", "AZURE_CLIENT_ID", "AZURE_CLIENT_SECRET",
                     "TARGET_MAILBOX", "REPORT_RECIPIENTS"}

\* the environments a run is started in, each given by the settings it lacks
Environments == {{}, {"REPORT_RECIPIENTS"}, {"AZURE_CLIENT_SECRET", "TARGET_MAILBOX"}}

FolderNames == {"Inbox", "TargetFolder"}

FolderIds == {None, "FolderId"}

\* Settings.validate: the error raised, None when nothing is missing
validate(missing_settings) ==
    IF missing_settings \cap RequiredSettings # {} THEN "ValueError" ELSE None

\* the entry points that bind the name settings before reading it
BindsSettings(e) == e \in {"process_attendance_emails", "send_report_only"}

\* the entry points that call settings.validate()
CallsValidate(e) == e = "process_attendance_emails"

\* the entry points that call send_deduction_emails
SendsNotices(e) == e \in {"process_attendance_emails", "send_deduction_emails_only"}

\* the folder read whenever a folder name is given
FetchWithoutFallback(folder_name, id) ==
    IF folder_name # None THEN "fetch_folder" ELSE "fetch_inbox"

\* the list the messages are read from
fetch_emails(folder_name, id) ==
    IF folder_name # None
    THEN IF id # None THEN "fetch_folder" ELSE "fetch_inbox"
    ELSE "fetch_inbox"

\* the messages the mailbox can hold; fault names the step that raises for it
Messages ==
    { [subject |-> <<VACTAG, "x">>, body |-> <<"x">>, sender_name |-> Hong,
       time_range |-> <<NoTime, NoTime>>, fault |-> None],
      [subject |-> <<TAG, "x">>, body |-> <<CHULGEUN, " ", JIYEON>>, sender_name |-> Hong,
       time_range |-> Morning, fault |-> None],
      [subject |-> <<TAG, "x">>, body |-> <<OECHUL>>, sender_name |-> Gildong,
       time_range |-> Morning, fault |-> None],
      [subject |-> <<TAG, "x">>, body |-> <<"x">>, sender_name |-> Hong,
       time_range |-> Short, fault |-> None],
      [subject |-> <<TAG, "x">>, body |-> <<DANGJIK, HYUSIK>>, sender_name |-> Gildong,
       time_range |-> Morning, fault |-> None],
      [subject |-> <<TAG, "x">>, body |-> <<JIGAK>>, sender_name |-> Hong,
       time_range |-> Morning, fault |-> "parse"],
      [subject |-> <<VACTAG, "x">>, body |-> <<"x">>, sender_name |-> Gildong,
       time_range |-> <<NoTime, NoTime>>, fault |-> "classify"],
      [subject |-> <<TAG, "x">>, body |-> <<JOTOE>>, sender_name |-> Gildong,
       time_range |-> Morning, fault |-> "get_user_department"] }

RECURSIVE Lists(_, _)
\* the lists of at most n elements of a set
Lists(S, n) ==
    IF n = 0 THEN {<<>>}
    ELSE LET shorter == Lists(S, n - 1)
         IN  shorter \cup {Append(l, x) : l \in shorter, x \in S}

\* get_user_department answers None when the lookup raises
get_user_department(email) ==
    IF email.fault = "get_user_department" THEN None ELSE "Department"

\* The processing that files every attendance record under late arrivals
ProcessIgnoringSubtype(email, email_id, lists) ==
    IF email.fault \in {"classify", "parse"}
    THEN lists
    ELSE LET classification == classify(email.subject, email.body)
             record == [applicant |-> extract_applicant(email.sender_name),
                        department |-> get_user_department(email),
                        email_id |-> email_id]
         IN  IF classification.category = "VACATION"
             THEN [lists EXCEPT !.vacations = Append(@, record)]
             ELSE IF classification.category = "ATTENDANCE"
             THEN [lists EXCEPT !.late_arrivals = Append(@, record)]
             ELSE [lists EXCEPT !.unclassified = Append(@, record)]

_process_single_email(email, email_id, lists) ==
    IF email.fault \in {"classify", "parse"}
    THEN lists
    ELSE LET classification == classify(email.subject, email.body)
             department == get_user_department(email)
             applicant == extract_applicant(email.sender_name)
         IN  IF classification.category = "VACATION"
             THEN [lists EXCEPT !.vacations =
                       Append(@, [applicant |-> applicant, department |-> department,
                                  email_id |-> email_id])]
             ELSE IF classification.category = "ATTENDANCE"
             THEN LET record == [applicant |-> applicant,
                                 sub_type |-> classification.sub_type,
                                 start_time |-> email.time_range[1],
                                 end_time |-> email.time_range[2],
                                 department |-> department,
                                 email_id |-> email_id]
                  IN  IF classification.sub_type = "LATE_ARRIVAL"
                      THEN [lists EXCEPT !.late_arrivals = Append(@, record)]
                      ELSE IF classification.sub_type = "OUTING"
                      THEN [lists EXCEPT !.outings = Append(@, record)]
                      ELSE IF classification.sub_type = "EARLY_LEAVE"
                      THEN [lists EXCEPT !.early_leaves = Append(@, record)]
                      ELSE [lists EXCEPT !.unclassified = Append(@, record)]
             ELSE [lists EXCEPT !.unclassified =
                       Append(@, [subject |-> email.subject,
                                  sender |-> email.sender_name,
                                  received_at |-> email_id])]

\* the records send_deduction_emails adds up
AttendanceRecords(lists) == lists.late_arrivals \o lists.outings \o lists.early_leaves

\* the keywords the entry points pass to send_email_with_attachment
ReportCallKeywords == {"to", "subject", "body", "attachment_name", "attachment_bytes",
                       "cc"}

\* the parameters send_email_with_attachment declares
ReportSendParameters == {"to", "subject", "body", "attachment_name",
                         "attachment_bytes", "content_type"}

\* a call with a keyword the function does not declare raises TypeError
CallError(keywords, parameters) ==
    IF keywords \subseteq parameters THEN None ELSE "TypeError"

\* the dictionary process_attendance_emails returns
Summary(success) ==
    [success |-> success,
     vacations_count |-> Len(buckets.vacations),
     late_arrivals_count |-> Len(buckets.late_arrivals),
     outings_count |-> Len(buckets.outings),
     early_leaves_count |-> Len(buckets.early_leaves),
     unclassified_count |-> Len(buckets.unclassified),
     total_count |-> Len(emails),
     deductions_count |-> Len(run_deductions),
     deductions |-> run_deductions]

otherVars == <<runVars, probeVars, minutesVars, classifyVars, parserVars>>

\* the history folder with the notice that an earlier run has sent for
\* 120 minutes of late arrival, on the first day
NoticeFolder ==
    Delivered(send_deduction_emails(
                  <<[applicant |-> extract_applicant(Hong), sub_type |-> "LATE_ARRIVAL",
                     start_time |-> Morning[1], end_time |-> Morning[2]]>>,
                  EmptyHistory, TRUE, {}).outbox, 1)

\* what the history folder holds when an entry point is called
HistoryFolders == {<<>>, NoticeFolder}

\* the history that is used even when it could not be read
HistoryKeptOnFailure(id, raises, msgs, now) == fetch_previous_deductions(msgs, now)

\* fetch_previous_deductions with its guard and its try: no history without
\* folder id, and none when the read of the folder raises
GuardedHistory(id, raises, msgs, now) ==
    IF id = None \/ raises THEN EmptyHistory
    ELSE fetch_previous_deductions(msgs, now)

\* a trigger calls an entry point in some environment
Call(e, env, name, id, history) ==
    /\ pc = "idle"
    /\ entry_point' = e
    /\ missing' = env
    /\ target_folder' = name
    /\ folder_id' = id
    /\ folder' = history
    /\ pc' = "called"
    /\ UNCHANGED <<io, emails, position, buckets, run_deductions, raised, returned>>
    /\ UNCHANGED <<inbox, today, runs, results, response, previous_deductions, log,
                   outbox, deductions, sent_minutes, sheet>>
    /\ UNCHANGED <<probeVars, minutesVars, classifyVars, parserVars>>

\* from the first line of the entry point to the first read of settings
LoadSettings ==
    /\ pc = "called"
    /\ LET error == IF CallsValidate(entry_point) /\ validate(missing) # None
                    THEN validate(missing)
                    ELSE IF ~BindsSettings(entry_point) THEN "NameError" ELSE None
       IN  IF error # None
           THEN pc' = "raised" /\ raised' = error
           ELSE pc' = "configured" /\ raised' = raised
    /\ UNCHANGED <<entry_point, missing, target_folder, folder_id, io, emails,
                   position, buckets, run_deductions, returned>>
    /\ UNCHANGED otherVars

\* GraphAuthenticator(...).get_client(); ok is FALSE when it raises
Authenticate(ok) ==
    /\ pc = "configured"
    /\ io' = Append(io, "authenticate")
    /\ IF ok
       THEN pc' = "authenticated" /\ raised' = raised
       ELSE pc' = "raised" /\ raised' = "AuthenticationError"
    /\ UNCHANGED <<entry_point, missing, target_folder, folder_id, emails, position,
                   buckets, run_deductions, returned>>
    /\ UNCHANGED otherVars

\* email_client.fetch_emails(...); ok is FALSE when the request raises
FetchEmails(ok, messages) ==
    /\ pc = "authenticated"
    /\ io' = Append(io, fetch_emails(IF target_folder # "Inbox" THEN target_folder
                                     ELSE None, folder_id))
    /\ IF ok
       THEN pc' = "processing" /\ emails' = messages /\ raised' = raised
       ELSE pc' = "raised" /\ emails' = emails /\ raised' = "ConnectivityError"
    /\ UNCHANGED <<entry_point, missing, target_folder, folder_id, position, buckets,
                   run_deductions, returned>>
    /\ UNCHANGED otherVars

\* one pass of the loop over emails
ProcessEmail ==
    /\ pc = "processing"
    /\ position < Len(emails)
    /\ buckets' = _process_single_email(emails[position + 1], position + 1, buckets)
    /\ position' = position + 1
    /\ io' = IF emails[position + 1].fault \in {"classify", "parse"}
             THEN io
             ELSE Append(io, "get_user_department")
    /\ UNCHANGED <<entry_point, missing, target_folder, folder_id, pc, emails,
                   run_deductions, raised, returned>>
    /\ UNCHANGED otherVars

\* the history is read and the notices are sent, in test mode; raises is
\* TRUE when the read of the history folder raises
SendDeductions(failing, raises) ==
    /\ pc = "processing"
    /\ position = Len(emails)
    /\ SendsNotices(entry_point)
    /\ raises => folder_id # None
    /\ LET hist == GuardedHistory(folder_id, raises, folder, today)
           out == send_deduction_emails(AttendanceRecords(buckets), hist, TRUE, failing)
       IN  /\ failing \subseteq {out.deductions[i].korean_name :
                                    i \in 1..Len(out.deductions)}
           /\ io' = io \o <<"_get_folder_id">>
                       \o (IF folder_id = None THEN <<>>
                           ELSE IF raises THEN <<"fetch_history_raised">>
                           ELSE <<"fetch_history">>)
                       \o [i \in 1..Len(out.outbox) |-> "send_email"]
           /\ run_deductions' = out.deductions
           /\ IF entry_point = "process_attendance_emails"
              THEN pc' = "reporting" /\ returned' = returned
              ELSE /\ pc' = "returned"
                   /\ returned' = [success |-> TRUE,
                                   deductions_count |-> Len(out.deductions),
                                   deductions |-> out.deductions]
    /\ UNCHANGED <<entry_point, missing, target_folder, folder_id, emails, position,
                   buckets, raised>>
    /\ UNCHANGED otherVars

\* send_report_only reads the history and sends no notice; the list it
\* collects from the history goes into the report body only
CollectDeductions ==
    /\ pc = "processing"
    /\ position = Len(emails)
    /\ ~SendsNotices(entry_point)
    /\ io' = io \o <<"_get_folder_id">>
                \o (IF folder_id = None THEN <<>> ELSE <<"fetch_history">>)
    /\ pc' = "reporting"
    /\ UNCHANGED <<entry_point, missing, target_folder, folder_id, emails, position,
                   buckets, run_deductions, raised, returned>>
    /\ UNCHANGED otherVars

\* the report is built and handed to send_email_with_attachment; ok is what
\* the send answers
SendReport(ok) ==
    /\ pc = "reporting"
    /\ LET error == CallError(ReportCallKeywords, ReportSendParameters)
       IN  IF error # None
           THEN pc' = "raised" /\ raised' = error /\ io' = io /\ returned' = returned
           ELSE /\ pc' = "returned"
                /\ raised' = raised
                /\ io' = Append(io, "send_email_with_attachment")
                /\ returned' = Summary(ok)
    /\ UNCHANGED <<entry_point, missing, target_folder, folder_id, emails, position,
                   buckets, run_deductions>>
    /\ UNCHANGED otherVars

EntryNext ==
    \/ \E e \in EntryPoints, env \in Environments, name \in FolderNames,
          id \in FolderIds, history \in HistoryFolders :
           Call(e, env, name, id, history)
    \/ LoadSettings
    \/ \E ok \in BOOLEAN : Authenticate(ok)
    \/ \E ok \in BOOLEAN, messages \in Lists(Messages, MaxEmails) :
           FetchEmails(ok, messages)
    \/ ProcessEmail
    \/ \E failing \in SUBSET Applicants, raises \in BOOLEAN :
           SendDeductions(failing, raises)
    \/ CollectDeductions
    \/ \E ok \in BOOLEAN : SendReport(ok)

EntrySpec == Init /\ [][EntryNext]_vars

-----------------------------------------------------------------------------
(* Properties of the entry points *)

\* the message an item of the unclassified list was made from
MessageOf(item) ==
    IF "email_id" \in DOMAIN item THEN item.email_id ELSE item.received_at

\* C12: a message for which classification, extraction or the department
\* lookup raised is in the unclassified list once the loop has passed it, and
\* the loop passes every message of the run before the run goes on.
C12_FaultyUnclassified ==
    /\ \A i \in 1..position :
           emails[i].fault # None =>
               \E k \in 1..Len(buckets.unclassified) :
                   MessageOf(buckets.unclassified[k]) = i
    /\ pc \in {"reporting", "returned"} => position = Len(emails)

-----------------------------------------------------------------------------
(* Properties of the sends of a run *)

\* C13: the entry of an employee in the returned list has email_sent false
\* exactly when the send of that employee's notice failed, and a notice is
\* attempted for every qualifying employee of the run, the ones after a failed
\* send included.
C13_FailedSendRecorded ==
    LET qualifying == SelectSeq(log, Qualifies)
    IN  /\ Len(outbox) = Len(qualifying)
        /\ Len(deductions) = Len(qualifying)
        /\ \A j \in 1..Len(qualifying) :
               /\ outbox[j].subject = deduction_subject(qualifying[j].english_name,
                                                        qualifying[j].deduction_days)
               /\ deductions[j].korean_name = qualifying[j].korean_name
               /\ deductions[j].email_sent = outbox[j].success

C13_Witness ==
    /\ Len(outbox) = 2
    /\ ~outbox[1].success
    /\ ~deductions[1].email_sent
    /\ outbox[2].success
    /\ deductions[2].email_sent
    /\ deductions[1].korean_name # deductions[2].korean_name

\* C16: every notice of a run in test mode has the test address as its only
\* to-recipient.
C16_TestRecipientOnly ==
    \A j \in 1..Len(outbox) : outbox[j].to = <<TEST_DEDUCTION_EMAIL>>

C16_Witness ==
    /\ Len(outbox) = 2
    /\ outbox[1].subject # outbox[2].subject
    /\ outbox[1].to = <<TEST_DEDUCTION_EMAIL>>
    /\ outbox[2].to = <<TEST_DEDUCTION_EMAIL>>

-----------------------------------------------------------------------------
(* Properties of the failures of a run *)

\* C14: a call of process_attendance_emails never ends by an exception
\* other than the configuration error or the authentication or connectivity
\* error: once validation and authentication have passed and the messages
\* are fetched, it goes on to return its dictionary.
C14_FullRunReturns ==
    (entry_point = "process_attendance_emails" /\ pc = "raised") =>
        raised \in {"ValueError", "AuthenticationError", "ConnectivityError"}

\* C15: an entry point called with a required setting missing makes no call
\* to the outside, and the exception it ends by is the configuration error.
C15_ConfigurationErrorFirst ==
    (entry_point # NoEntry /\ missing # {}) =>
        /\ io = <<>>
        /\ pc \in {"called", "raised"}
        /\ pc = "raised" => raised = "ValueError"

\* C17: with a target folder that resolves to no id the messages are asked
\* of the inbox, never of a folder, and the run goes on with what was fetched.
C17_FallsBackToInbox ==
    (target_folder # "Inbox" /\ folder_id = None) =>
        /\ \A k \in 1..Len(io) : io[k] # "fetch_folder"
        /\ Len(io) >= 2 => io[2] = "fetch_inbox"
        /\ pc \in {"processing", "reporting"} => raised = None

C17_Witness ==
    /\ target_folder # "Inbox"
    /\ folder_id = None
    /\ Len(io) >= 2
    /\ io[2] = "fetch_inbox"
    /\ pc = "reporting"
    /\ position = Len(emails)
    /\ Len(buckets.late_arrivals) = 1
    /\ \E k \in 1..Len(io) : io[k] = "send_email"

-----------------------------------------------------------------------------
(* The classifier applied to one subject and body *)

\* subjects with one marker, both markers, none, or the two words without
\* their brackets
Subjects == { <<VACTAG, "x">>, <<"x", VACTAG>>, <<TAG, "x">>, <<TAG, VACTAG>>,
              <<VACTAG, TAG>>, <<"x">>, <<"VAC", "TAG">> }

\* what a body is made of: the words of the vocabulary, a blank, other text
BodyTokens == {CHULGEUN, JIYEON, JIGAK, NEUJEUN, OECHUL, OEGEUN, JARI, BIUM, JOGI,
               TOEGEUN, JOTOE, ILJJIK, DANGJIK, HYUSIK, JEONIL, YAGEUN, " ", "x"}

ClassifyStart ==
    /\ RunInit
    /\ ProbeInit
    /\ MinutesInit
    /\ EntryInit
    /\ ParserInit
    /\ cls_subject \in Subjects
    /\ cls_body \in Lists(BodyTokens, MaxBody)
    /\ cls_result = NotClassified
    /\ cls_target = FALSE

Classify ==
    /\ cls_result = NotClassified
    /\ cls_result' = classify(cls_subject, cls_body)
    /\ cls_target' = is_target_email(cls_subject)
    /\ UNCHANGED <<cls_subject, cls_body>>
    /\ UNCHANGED <<runVars, probeVars, minutesVars, entryVars, parserVars>>

ClassifyNext == Classify

ClassifySpec == ClassifyStart /\ [][ClassifyNext]_vars

\* the word occurs in the text
Has(text, word) == \E i \in 1..Len(text) : text[i] = word

\* the two words occur in the text with nothing but blanks between them
Occurs(text, first, second) ==
    \E i \in 1..Len(text) : \E j \in (i + 1)..Len(text) :
        /\ text[i] = first
        /\ text[j] = second
        /\ \A k \in (i + 1)..(j - 1) : text[k] = " "

ExcludedOccurs(text) ==
    Occurs(text, DANGJIK, HYUSIK) \/ Occurs(text, JEONIL, YAGEUN)

LateArrivalOccurs(text) ==
    Occurs(text, CHULGEUN, JIYEON) \/ Has(text, JIGAK) \/ Occurs(text, NEUJEUN, CHULGEUN)

OutingOccurs(text) ==
    Has(text, OECHUL) \/ Has(text, OEGEUN) \/ Occurs(text, JARI, BIUM)

EarlyLeaveOccurs(text) ==
    Occurs(text, JOGI, TOEGEUN) \/ Has(text, JOTOE) \/ Occurs(text, ILJJIK, TOEGEUN)

\* C18: a subject with the vacation marker is classified VACATION, without
\* subtype, confidence 1.0, whatever the body and whether or not the subject
\* carries the attendance marker too.
C18_VacationSubject ==
    (cls_result # NotClassified /\ Has(cls_subject, VACTAG)) =>
        cls_result = [category |-> "VACATION", sub_type |-> None, confidence |-> 10]

C18_Witness ==
    /\ Has(cls_subject, VACTAG)
    /\ Has(cls_subject, TAG)
    /\ ExcludedOccurs(cls_body)
    /\ LateArrivalOccurs(cls_body)
    /\ cls_result # NotClassified
    /\ cls_result.category = "VACATION"

\* C19: a subject with the attendance marker and no vacation marker, with a
\* body in which an excluded activity occurs, is classified UNKNOWN,
\* confidence 0.0, also when a subtype vocabulary occurs in the body.
C19_ExcludedUnknown ==
    (/\ cls_result # NotClassified
     /\ Has(cls_subject, TAG)
     /\ ~Has(cls_subject, VACTAG)
     /\ ExcludedOccurs(cls_body)) =>
        cls_result = [category |-> "UNKNOWN", sub_type |-> None, confidence |-> 0]

C19_Witness ==
    /\ Has(cls_subject, TAG)
    /\ ~Has(cls_subject, VACTAG)
    /\ Occurs(cls_body, JEONIL, YAGEUN)
    /\ OutingOccurs(cls_body)
    /\ cls_result # NotClassified
    /\ cls_result.category = "UNKNOWN"

\* C20: an attendance message that is not excluded gets the first of
\* late-arrival, outing, early-leave whose vocabulary occurs in the body, with
\* confidence 0.9, and ATTENDANCE with subtype UNKNOWN and confidence 0.5
\* when none occurs.
C20_FirstGroupWins ==
    (/\ cls_result # NotClassified
     /\ Has(cls_subject, TAG)
     /\ ~Has(cls_subject, VACTAG)
     /\ ~ExcludedOccurs(cls_body)) =>
        cls_result =
            IF LateArrivalOccurs(cls_body)
            THEN [category |-> "ATTENDANCE", sub_type |-> "LATE_ARRIVAL", confidence |-> 9]
            ELSE IF OutingOccurs(cls_body)
            THEN [category |-> "ATTENDANCE", sub_type |-> "OUTING", confidence |-> 9]
            ELSE IF EarlyLeaveOccurs(cls_body)
            THEN [category |-> "ATTENDANCE", sub_type |-> "EARLY_LEAVE", confidence |-> 9]
            ELSE [category |-> "ATTENDANCE", sub_type |-> "UNKNOWN", confidence |-> 5]

C20_Witness ==
    /\ Has(cls_subject, TAG)
    /\ ~Has(cls_subject, VACTAG)
    /\ ~ExcludedOccurs(cls_body)
    /\ EarlyLeaveOccurs(cls_body)
    /\ OutingOccurs(cls_body)
    /\ LateArrivalOccurs(cls_body)
    /\ ~LateArrivalOccurs(SubSeq(cls_body, 1, 2))
    /\ cls_result # NotClassified
    /\ cls_result.sub_type = "LATE_ARRIVAL"
    /\ cls_result.confidence = 9

\* C21: is_target_email answers true exactly for the subjects that hold the
\* vacation marker or the attendance marker, and a subject for which it
\* answers false is classified UNKNOWN with confidence 0.0 whatever the body.
C21_TargetIffMarker ==
    cls_result # NotClassified =>
        /\ cls_target = (Has(cls_subject, VACTAG) \/ Has(cls_subject, TAG))
        /\ ~cls_target =>
               cls_result = [category |-> "UNKNOWN", sub_type |-> None, confidence |-> 0]

C21_Witness ==
    /\ cls_result # NotClassified
    /\ ~cls_target
    /\ Has(cls_subject, "VAC")
    /\ LateArrivalOccurs(cls_body)
    /\ ExcludedOccurs(cls_body)
    /\ cls_result.category = "UNKNOWN"

-----------------------------------------------------------------------------
(* Extraction of the time range from a body *)

AM == "AM"              \* the word for before noon
PM == "PM"              \* the word for after noon
SI == "SI"              \* the hour word written after a number
BUN == "BUN"            \* the minute word written after a number

\* the numbers the texts are written with
NumberTexts == {"0", "5", "9", "12", "13", "23", "24", "30", "59", "75"}

\* int(text) of a number
int_of(text) ==
    CASE text = "0" -> 0
      [] text = "5" -> 5
      [] text = "9" -> 9
      [] text = "12" -> 12
      [] text = "13" -> 13
      [] text = "23" -> 23
      [] text = "24" -> 24
      [] text = "30" -> 30
      [] text = "59" -> 59
      [] text = "75" -> 75
      [] text = "1" -> 1
      [] text = "2" -> 2
      [] text = "3" -> 3
      [] text = "15" -> 15
      [] text = "28" -> 28
      [] text = "29" -> 29
      [] text = "31" -> 31
      [] text = "32" -> 32
      [] text = "2024" -> 2024
      [] text = "2025" -> 2025
      [] text = "2026" -> 2026
      [] text = "2027" -> 2027

\* how many digits the number is written with
DigitsOf(text) ==
    IF text \in {"0", "1", "2", "3", "5", "9"} THEN 1
    ELSE IF text \in {"2024", "2025", "2026", "2027"} THEN 4
    ELSE 2

IsNumberAt(text, i) == i <= Len(text) /\ text[i] \in NumberTexts

IsTokenAt(text, i, tokens) == i <= Len(text) /\ text[i] \in tokens

\* TIME_PATTERNS[0] matched from position i on: the four groups, "" for an
\* empty group
ClockWordAt(text, i) ==
    LET a == SkipSpaces(text, i + 2)
        b == IF IsNumberAt(text, a) THEN a + 1 ELSE a
        c == IF IsTokenAt(text, b, {BUN}) THEN b + 1 ELSE b
        d == SkipSpaces(text, c)
        e == SkipSpaces(text, d + 1)
        f == SkipSpaces(text, e + 2)
    IN  IF /\ IsNumberAt(text, i)
           /\ IsTokenAt(text, i + 1, {SI, ":"})
           /\ IsTokenAt(text, d, {"~", "-"})
           /\ IsNumberAt(text, e)
           /\ IsTokenAt(text, e + 1, {SI, ":"})
        THEN <<text[i], IF IsNumberAt(text, a) THEN text[a] ELSE "",
               text[e], IF IsNumberAt(text, f) THEN text[f] ELSE "">>
        ELSE NoMatch

\* TIME_PATTERNS[1] matched from position i on
ColonAt(text, i) ==
    LET d == SkipSpaces(text, i + 3)
        e == SkipSpaces(text, d + 1)
    IN  IF /\ IsNumberAt(text, i)
           /\ IsTokenAt(text, i + 1, {":"})
           /\ IsNumberAt(text, i + 2)
           /\ DigitsOf(text[i + 2]) = 2
           /\ IsTokenAt(text, d, {"~", "-"})
           /\ IsNumberAt(text, e)
           /\ IsTokenAt(text, e + 1, {":"})
           /\ IsNumberAt(text, e + 2)
           /\ DigitsOf(text[e + 2]) = 2
        THEN <<text[i], text[i + 2], text[e], text[e + 2]>>
        ELSE NoMatch

\* TIME_PATTERNS[2] matched from position i on
AmPmAt(text, i) ==
    LET a == SkipSpaces(text, i + 1)
        d == SkipSpaces(text, a + 2)
        e == SkipSpaces(text, d + 1)
        f == SkipSpaces(text, e + 1)
    IN  IF /\ IsTokenAt(text, i, {AM, PM})
           /\ IsNumberAt(text, a)
           /\ IsTokenAt(text, a + 1, {SI})
           /\ IsTokenAt(text, d, {"~", "-"})
           /\ IsTokenAt(text, e, {AM, PM})
           /\ IsNumberAt(text, f)
           /\ IsTokenAt(text, f + 1, {SI})
        THEN <<text[i], text[a], text[e], text[f]>>
        ELSE NoMatch

TimePatternAt(k, text, i) ==
    CASE k = 1 -> ClockWordAt(text, i)
      [] k = 2 -> ColonAt(text, i)
      [] k = 3 -> AmPmAt(text, i)

RECURSIVE TimeSearchFrom(_, _, _)
\* re.search: the groups of the leftmost match of pattern k
TimeSearchFrom(k, text, i) ==
    IF i > Len(text) THEN NoMatch
    ELSE IF TimePatternAt(k, text, i) # NoMatch
         THEN TimePatternAt(k, text, i)
         ELSE TimeSearchFrom(k, text, i + 1)

\* datetime.time(hour, minute) raises ValueError outside these ranges
ValidTime(hour, minute) == hour \in 0..23 /\ minute \in 0..59

Returned(value) == [outcome |-> "returned", value |-> value]

Raised(error) == [outcome |-> "raised", value |-> <<error>>]

\* the hour of the AM/PM form: 12 is added after noon, except to 12
AmPmHour(word, hour) == IF word = PM /\ hour # 12 THEN hour + 12 ELSE hour

RECURSIVE TimeRangeFrom(_, _)
\* the loop over TIME_PATTERNS from pattern k on; a value of <<>> is None
TimeRangeFrom(k, body) ==
    IF k > 3 THEN Returned(<<>>)
    ELSE LET groups == TimeSearchFrom(k, body, 1)
         IN  IF groups = NoMatch THEN TimeRangeFrom(k + 1, body)
             ELSE IF groups[1] \in {AM, PM}
             THEN LET start_hour == AmPmHour(groups[1], int_of(groups[2]))
                      end_hour == AmPmHour(groups[3], int_of(groups[4]))
                  IN  IF ValidTime(start_hour, 0) /\ ValidTime(end_hour, 0)
                      THEN Returned(<< <<start_hour, 0>>, <<end_hour, 0>> >>)
                      ELSE Raised("ValueError")
             ELSE LET start_hour == int_of(groups[1])
                      start_min == IF groups[2] # "" THEN int_of(groups[2]) ELSE 0
                      end_hour == int_of(groups[3])
                      end_min == IF groups[4] # "" THEN int_of(groups[4]) ELSE 0
                  IN  IF start_hour \in 0..23 /\ end_hour \in 0..23
                      THEN IF ValidTime(start_hour, start_min)
                              /\ ValidTime(end_hour, end_min)
                           THEN Returned(<< <<start_hour, start_min>>,
                                            <<end_hour, end_min>> >>)
                           ELSE TimeRangeFrom(k + 1, body)
                      ELSE TimeRangeFrom(k + 1, body)

_extract_time_range(body) == TimeRangeFrom(1, body)

\* one side of a time range as a body writes it
TimeSides ==
    {ampm \o <<hour, mark>> \o minute :
        ampm \in {<<>>, <<AM, " ">>, <<PM>>},
        hour \in {"9", "12", "13", "24"},
        mark \in {SI, ":"},
        minute \in {<<>>, <<"30">>, <<" ", "30", BUN>>, <<"75">>, <<"5">>}}

TimeTexts == {from \o <<" ", dash, " ">> \o to :
                 from \in TimeSides, to \in TimeSides, dash \in {"~", "-"}}

TimeStart ==
    /\ RunInit
    /\ ProbeInit
    /\ MinutesInit
    /\ ClassifyInit
    /\ EntryInit
    /\ time_text \in TimeTexts
    /\ time_result = NotExtracted
    /\ date_text = <<>>
    /\ date_result = NotExtracted
    /\ app_body = <<>>
    /\ app_sender = <<>>
    /\ app_result = NotExtracted

ExtractTimeRange ==
    /\ time_result = NotExtracted
    /\ time_result' = _extract_time_range(time_text)
    /\ UNCHANGED <<time_text, date_text, date_result, applicantVars>>
    /\ UNCHANGED <<runVars, probeVars, minutesVars, classifyVars, entryVars>>

TimeNext == ExtractTimeRange

TimeSpec == TimeStart /\ [][TimeNext]_vars

\* C22: the extraction of the time range never raises, and the range it
\* returns, if any, is made of clock times with the hour in 0..23 and the
\* minute in 0..59.
C22_TimeRangeNeverRaises ==
    /\ time_result.outcome # "raised"
    /\ (time_result.outcome = "returned" /\ time_result.value # <<>>) =>
           /\ ValidTime(time_result.value[1][1], time_result.value[1][2])
           /\ ValidTime(time_result.value[2][1], time_result.value[2][2])

-----------------------------------------------------------------------------
(* Extraction of the dates from a body *)

YEAR_W == "NYEON"       \* the year word written after a number
MONTH_W == "WOL"        \* the month word
DAY_W == "IL"           \* the day word

\* datetime.now().year
CurrentYear == 2026

YearTexts == {"2024", "2025", "2026", "2027"}

\* the numbers of one or two digits the date texts are written with
ShortTexts == {"1", "2", "3", "12", "13", "15", "28", "29", "30", "31", "32"}

IsLeap(year) == (year % 4 = 0 /\ year % 100 # 0) \/ year % 400 = 0

DaysInMonth(year, month) ==
    IF month = 2 THEN (IF IsLeap(year) THEN 29 ELSE 28)
    ELSE IF month \in {4, 6, 9, 11} THEN 30 ELSE 31

\* date(year, month, day) raises ValueError when this does not hold
ValidDate(year, month, day) ==
    /\ year \in 1..9999
    /\ month \in 1..12
    /\ day \in 1..DaysInMonth(year, month)

\* d + timedelta(days=1) on a date <<year, month, day>>
_next_day(d) ==
    IF d[3] < DaysInMonth(d[1], d[2]) THEN <<d[1], d[2], d[3] + 1>>
    ELSE IF d[2] < 12 THEN <<d[1], d[2] + 1, 1>>
    ELSE <<d[1] + 1, 1, 1>>

\* d1 <= d2 on dates
DateLeq(d1, d2) ==
    \/ d1[1] < d2[1]
    \/ d1[1] = d2[1] /\ d1[2] < d2[2]
    \/ d1[1] = d2[1] /\ d1[2] = d2[2] /\ d1[3] <= d2[3]

_is_reasonable_date(d) ==
    d[1] - CurrentYear \in (0 - 1)..1

PHONE == "PHONE"        \* a telephone number as the body writes it

\* re.sub of the telephone numbers by nothing
RemovePhones(body) ==
    LET Kept(token) == token # PHONE
    IN  SelectSeq(body, Kept)

NoDateMatch == [groups |-> <<>>, from |-> 0, to |-> 0]

DateMatch(groups, from, to) == [groups |-> groups, from |-> from, to |-> to]

IsYearAt(text, i) == i <= Len(text) /\ text[i] \in YearTexts

IsShortAt(text, i) == i <= Len(text) /\ text[i] \in ShortTexts

\* DATE_PATTERNS[0] matched from position i on: year, month and day, each
\* followed by its word, blanks allowed around the words
SpacedDateAt(text, i) ==
    LET a == SkipSpaces(text, i + 1)
        b == SkipSpaces(text, a + 1)
        c == SkipSpaces(text, b + 1)
        d == SkipSpaces(text, c + 1)
        e == SkipSpaces(text, d + 1)
    IN  IF /\ IsYearAt(text, i)
           /\ IsTokenAt(text, a, {YEAR_W})
           /\ IsShortAt(text, b)
           /\ IsTokenAt(text, c, {MONTH_W})
           /\ IsShortAt(text, d)
           /\ IsTokenAt(text, e, {DAY_W})
        THEN DateMatch(<<int_of(text[i]), int_of(text[b]), int_of(text[d])>>, i, e + 1)
        ELSE NoDateMatch

\* DATE_PATTERNS[1], which is also one side of DATE_RANGE_PATTERN, matched
\* from position i on: each separator and the day word may be missing
YmdAt(text, i) ==
    LET a == IF IsTokenAt(text, i + 1, {YEAR_W, ".", "-", "/"}) THEN i + 2 ELSE i + 1
        b == SkipSpaces(text, a)
        c == IF IsTokenAt(text, b + 1, {MONTH_W, ".", "-", "/"}) THEN b + 2 ELSE b + 1
        d == SkipSpaces(text, c)
        e == IF IsTokenAt(text, d + 1, {DAY_W}) THEN d + 2 ELSE d + 1
    IN  IF IsYearAt(text, i) /\ IsShortAt(text, b) /\ IsShortAt(text, d)
        THEN DateMatch(<<int_of(text[i]), int_of(text[b]), int_of(text[d])>>, i, e)
        ELSE NoDateMatch

\* DATE_PATTERNS[2] matched from position i on: \d{1,2} takes the last two
\* digits of a year that is followed by a separator
MonthDayAt(text, i) ==
    LET b == SkipSpaces(text, i + 2)
        e == IF IsTokenAt(text, b + 1, {DAY_W}) THEN b + 2 ELSE b + 1
    IN  IF /\ (IsYearAt(text, i) \/ IsShortAt(text, i))
           /\ IsTokenAt(text, i + 1, {MONTH_W, ".", "-", "/"})
           /\ IsShortAt(text, b)
        THEN DateMatch(<<int_of(text[i]) % 100, int_of(text[b])>>, i, e)
        ELSE NoDateMatch

\* DATE_RANGE_PATTERN matched from position i on: groups are the two sides
DateRangeAt(text, i) ==
    LET first == YmdAt(text, i)
        a == SkipSpaces(text, first.to)
        b == SkipSpaces(text, a + 1)
        second == YmdAt(text, b)
    IN  IF /\ first # NoDateMatch
           /\ IsTokenAt(text, a, {"~", "-"})
           /\ second # NoDateMatch
        THEN DateMatch(<<SubSeq(text, first.from, first.to - 1),
                         SubSeq(text, second.from, second.to - 1)>>, i, second.to)
        ELSE NoDateMatch

DatePatternAt(k, text, i) ==
    CASE k = 0 -> DateRangeAt(text, i)
      [] k = 1 -> SpacedDateAt(text, i)
      [] k = 2 -> YmdAt(text, i)
      [] k = 3 -> MonthDayAt(text, i)

RECURSIVE DateSearchFrom(_, _, _)
\* re.search: the leftmost match of pattern k
DateSearchFrom(k, text, i) ==
    IF i > Len(text) THEN NoDateMatch
    ELSE IF DatePatternAt(k, text, i) # NoDateMatch
         THEN DatePatternAt(k, text, i)
         ELSE DateSearchFrom(k, text, i + 1)

RECURSIVE FindAll(_, _, _)
\* re.findall: the groups of the matches from left to right, none overlapping
FindAll(k, text, i) ==
    IF i > Len(text) THEN <<>>
    ELSE LET match == DatePatternAt(k, text, i)
         IN  IF match # NoDateMatch
             THEN <<match.groups>> \o FindAll(k, text, match.to)
             ELSE FindAll(k, text, i + 1)

NotADate == <<>>        \* None where a date is expected

MAX_RANGE_DAYS == 30

\* A date string read as year, month and day, else as month and day of
\* default_year; a ValueError of date() is swallowed
DateOfSearches(ymd, md, default_year) ==
    IF ymd # NoDateMatch /\ ValidDate(ymd.groups[1], ymd.groups[2], ymd.groups[3])
    THEN ymd.groups
    ELSE IF md # NoDateMatch /\ ValidDate(default_year, md.groups[1], md.groups[2])
         THEN <<default_year, md.groups[1], md.groups[2]>>
         ELSE NotADate

_parse_single_date(date_str, default_year) ==
    DateOfSearches(DateSearchFrom(2, date_str, 1), DateSearchFrom(3, date_str, 1),
                   default_year)

RECURSIVE RangeDays(_, _, _)
\* The while loop over the days of a range
RangeDays(current, end_date, count) ==
    IF DateLeq(current, end_date) /\ count < MAX_RANGE_DAYS
    THEN <<current>> \o RangeDays(_next_day(current), end_date, count + 1)
    ELSE <<>>

\* The dates that the range of the body gives, none when there is no range,
\* when a side does not parse or when a side is not a reasonable date
\* The days from start_date to end_date, when both are dates and reasonable
DaysBetween(start_date, end_date) ==
    IF /\ start_date # NotADate
       /\ end_date # NotADate
       /\ _is_reasonable_date(start_date)
       /\ _is_reasonable_date(end_date)
    THEN RangeDays(start_date, end_date, 0)
    ELSE <<>>

DatesOfRange(range_match) ==
    IF range_match = NoDateMatch THEN <<>>
    ELSE DaysBetween(_parse_single_date(range_match.groups[1], CurrentYear),
                     _parse_single_date(range_match.groups[2], CurrentYear))

RangeDates(clean_body) == DatesOfRange(DateSearchFrom(0, clean_body, 1))

\* The date that one match of a single-date pattern gives, NotADate when the
\* loop body reaches continue
DateOfMatch(match) ==
    LET d == IF Len(match) = 3
             THEN (IF match[1] - CurrentYear \notin (0 - 1)..1 THEN NotADate
                   ELSE IF ValidDate(match[1], match[2], match[3]) THEN match
                   ELSE NotADate)
             ELSE (IF ~(match[1] \in 1..12 /\ match[2] \in 1..31) THEN NotADate
                   ELSE IF ValidDate(CurrentYear, match[1], match[2])
                        THEN <<CurrentYear, match[1], match[2]>>
                        ELSE NotADate)
    IN  IF d # NotADate /\ _is_reasonable_date(d) THEN d ELSE NotADate

RECURSIVE FirstDateOf(_, _)
\* The inner loop: it breaks at the first match that gives a date
FirstDateOf(matches, i) ==
    IF i > Len(matches) THEN NotADate
    ELSE IF DateOfMatch(matches[i]) # NotADate THEN DateOfMatch(matches[i])
         ELSE FirstDateOf(matches, i + 1)

\* The inner loop without its break: every date of the family is kept
FamilyDatesAll(clean_body, k) ==
    LET matches == FindAll(k, clean_body, 1)
        GivesDate(match) == DateOfMatch(match) # NotADate
        kept == SelectSeq(matches, GivesDate)
    IN  [i \in DOMAIN kept |-> DateOfMatch(kept[i])]

\* The dates that the inner loop appends for the pattern family k
FamilyDates(clean_body, k) ==
    LET d == FirstDateOf(FindAll(k, clean_body, 1), 1)
    IN  IF d # NotADate THEN <<d>> ELSE <<>>

RECURSIVE SingleDates(_, _)
\* The outer loop over DATE_PATTERNS: it breaks at the first pattern that
\* gave a date
SingleDates(clean_body, k) ==
    IF k > 3 THEN <<>>
    ELSE IF FamilyDates(clean_body, k) # <<>> THEN FamilyDates(clean_body, k)
         ELSE SingleDates(clean_body, k + 1)

RECURSIVE SortDates(_)
SortDates(S) ==
    IF S = {} THEN <<>>
    ELSE LET first == CHOOSE d \in S : \A e \in S : DateLeq(d, e)
         IN  <<first>> \o SortDates(S \ {first})

\* sorted(set(dates))
sorted_set(dates) == SortDates({dates[i] : i \in DOMAIN dates})

\* The individual dates are looked for when the range gave nothing
DatesOf(ranged, clean_body) ==
    IF ranged # <<>> THEN ranged ELSE SingleDates(clean_body, 1)

_extract_dates(body) ==
    Returned(sorted_set(DatesOf(RangeDates(RemovePhones(body)), RemovePhones(body))))

\* The values that the bodies give to the years, months and days
DateYears == {"2024", "2025", "2026", "2027"}

DateMonths == {"1", "2", "12", "13"}

DateDays == {"1", "29", "31", "32"}

\* 2026.1.15
Dotted(y, m, d) == <<y, ".", m, ".", d>>

\* 2026년 1월 15일
Worded(y, m, d) == <<y, YEAR_W, " ", m, MONTH_W, " ", d, DAY_W>>

\* 2026 년 1 월 15 일
Spaced(y, m, d) == <<y, " ", YEAR_W, " ", m, " ", MONTH_W, " ", d, " ", DAY_W>>

\* 1/15
Slashed(m, d) == <<m, "/", d>>

FullDates(Form(_, _, _), years) ==
    {Form(y, m, d) : y \in years, m \in DateMonths, d \in DateDays}

\* The ranges: every pair of dates of the years around the current one, and
\* pairs of dates of the current year with the other dash and the words
RangeTexts ==
    {a \o <<" ", "~", " ">> \o b :
        a \in FullDates(Dotted, DateYears \ {"2024"}), b \in FullDates(Dotted, DateYears)}
    \cup {a \o <<" ", "-", " ">> \o b :
            a \in FullDates(Dotted, {"2026"}), b \in FullDates(Dotted, {"2026"})}
    \cup {a \o <<" ", "~", " ">> \o b :
            a \in FullDates(Worded, {"2026"}), b \in FullDates(Dotted, {"2026"})}

Mentions(years) ==
    FullDates(Dotted, years) \cup FullDates(Spaced, years)
    \cup {Slashed(m, d) : m \in DateMonths, d \in DateDays}

\* The bodies without range: one mention, two mentions, a mention after a
\* telephone number
MentionTexts ==
    Mentions(DateYears)
    \cup {a \o <<" ">> \o b : a \in Mentions({"2026"}), b \in Mentions({"2026"})}
    \cup {<<PHONE, " ">> \o a : a \in Mentions({"2026"})}

DateTexts == RangeTexts \cup MentionTexts

DateStart ==
    /\ RunInit
    /\ ProbeInit
    /\ MinutesInit
    /\ ClassifyInit
    /\ EntryInit
    /\ time_text = <<>>
    /\ time_result = NotExtracted
    /\ date_text \in DateTexts
    /\ date_result = NotExtracted
    /\ app_body = <<>>
    /\ app_sender = <<>>
    /\ app_result = NotExtracted

ExtractDates ==
    /\ date_result = NotExtracted
    /\ date_result' = _extract_dates(date_text)
    /\ UNCHANGED <<time_text, time_result, date_text, applicantVars>>
    /\ UNCHANGED <<runVars, probeVars, minutesVars, classifyVars, entryVars>>

DateNext == ExtractDates

DateSpec == DateStart /\ [][DateNext]_vars

RECURSIVE DaysBeforeYear(_)
DaysBeforeYear(year) ==
    IF year <= 2024 THEN 0
    ELSE DaysBeforeYear(year - 1) + (IF IsLeap(year - 1) THEN 366 ELSE 365)

RECURSIVE DaysBeforeMonth(_, _)
DaysBeforeMonth(year, month) ==
    IF month <= 1 THEN 0
    ELSE DaysBeforeMonth(year, month - 1) + DaysInMonth(year, month - 1)

\* The number of the day d, counted from the first day of 2024
DayNumber(d) == DaysBeforeYear(d[1]) + DaysBeforeMonth(d[1], d[2]) + d[3]

\* The two sides of the range of the extracted body, as dates
RangeStart ==
    _parse_single_date(DateSearchFrom(0, RemovePhones(date_text), 1).groups[1], CurrentYear)

RangeEnd ==
    _parse_single_date(DateSearchFrom(0, RemovePhones(date_text), 1).groups[2], CurrentYear)

\* A range is detected, both sides are valid and within one year of now
RangeDetected ==
    /\ DateSearchFrom(0, RemovePhones(date_text), 1) # NoDateMatch
    /\ RangeStart # NotADate
    /\ RangeEnd # NotADate
    /\ RangeStart[1] \in {CurrentYear - 1, CurrentYear, CurrentYear + 1}
    /\ RangeEnd[1] \in {CurrentYear - 1, CurrentYear, CurrentYear + 1}

\* dates are the days number from..to, in this order
ConsecutiveDays(dates, from, to) ==
    /\ Len(dates) = (IF to >= from THEN to - from + 1 ELSE 0)
    /\ \A k \in DOMAIN dates :
        /\ ValidDate(dates[k][1], dates[k][2], dates[k][3])
        /\ DayNumber(dates[k]) = from + k - 1

\* C23: when a date range is detected and both endpoints are valid and
\* within one year of the current year, the extracted dates are exactly the
\* consecutive days from start to end inclusive, truncated to the first 30
\* days, sorted ascending without duplicates.
C23_RangeMaterialized ==
    (date_result # NotExtracted /\ RangeDetected) =>
        LET from == DayNumber(RangeStart)
            to == DayNumber(RangeEnd)
            last == IF to - from + 1 > 30 THEN from + 29 ELSE to
        IN  /\ date_result.outcome = "returned"
            /\ ConsecutiveDays(date_result.value, from, last)

\* The same for the ranges whose start is not after their end
C23_OrderedRangeMaterialized ==
    (date_result # NotExtracted /\ RangeDetected /\ DateLeq(RangeStart, RangeEnd))
        => C23_RangeMaterialized

\* A range whose start is after its end has been extracted
C23_ReversedRange ==
    /\ date_result # NotExtracted
    /\ RangeDetected
    /\ ~DateLeq(RangeStart, RangeEnd)

\* The range of the extracted body gave dates
RangeMaterialized == RangeDetected /\ DateLeq(RangeStart, RangeEnd)

\* The places, among the matches of the family k in the extracted body,
\* of the matches that give a valid date
ValidMatches(k) ==
    LET matches == FindAll(k, RemovePhones(date_text), 1)
    IN  {i \in DOMAIN matches : DateOfMatch(matches[i]) # NotADate}

Least(S) == CHOOSE n \in S : \A other \in S : n <= other

\* C24: when no date range is materialized, the extractor returns at most
\* one date, however many dates the body mentions: the first valid date
\* of the first pattern family that yields a valid date.
C24_AtMostOneDate ==
    (date_result # NotExtracted /\ ~RangeMaterialized) =>
        LET families == {k \in 1..3 : ValidMatches(k) # {}}
            first == Least(families)
            match == FindAll(first, RemovePhones(date_text), 1)[Least(ValidMatches(first))]
        IN  /\ date_result.outcome = "returned"
            /\ Len(date_result.value) <= 1
            /\ families = {} => date_result.value = <<>>
            /\ families # {} => date_result.value = <<DateOfMatch(match)>>

\* A body that mentions two different valid dates, without a range, has
\* given one date
C24_Witness ==
    /\ date_result # NotExtracted
    /\ ~RangeMaterialized
    /\ Cardinality(ValidMatches(2)) = 2
    /\ \E i, j \in ValidMatches(2) :
        LET matches == FindAll(2, RemovePhones(date_text), 1)
        IN  DateOfMatch(matches[i]) # DateOfMatch(matches[j])
    /\ Len(date_result.value) = 1

(***************************************************************************)
(* Extraction of the applicant from a body and a sender display name       *)
(***************************************************************************)

SINGOJA == "SINGOJA"            \* the label of the reporter
SINCHEONGJA == "SINCHEONGJA"    \* the label of the applicant
SEONGMYEONG == "SEONGMYEONG"    \* the label of the full name
IREUM == "IREUM"                \* the label of the name
JAKSEONGJA == "JAKSEONGJA"      \* the label of the writer
SEONG == "SEONG"                \* the first syllable of SEONGMYEONG
MYEONG == "MYEONG"              \* its second syllable
MISANG == <<"MISANG">>          \* the applicant when nothing names one

\* The words of the Latin alphabet that the texts write
LatinWords == {"Kim", "Janice"}

\* The words of Hangul that the texts write, with their number of syllables
Syllables ==
    [w \in {"HONGGILDONG", "GIM", SINGOJA, SINCHEONGJA, SEONGMYEONG, IREUM,
            JAKSEONGJA, SEONG, MYEONG} |->
        CASE w \in {"GIM", SEONG, MYEONG} -> 1
          [] w \in {SEONGMYEONG, IREUM} -> 2
          [] OTHER -> 3]

HangulWords == DOMAIN Syllables

\* APPLICANT_PATTERNS: the label and the alphabet of the captured name
APPLICANT_PATTERNS ==
    << [label |-> <<SINGOJA>>, alphabet |-> "latin"],
       [label |-> <<SINCHEONGJA>>, alphabet |-> "latin"],
       [label |-> <<SINGOJA>>, alphabet |-> "hangul"],
       [label |-> <<SINCHEONGJA>>, alphabet |-> "hangul"],
       [label |-> <<SEONGMYEONG>>, alphabet |-> "hangul"],
       [label |-> <<IREUM>>, alphabet |-> "hangul"],
       [label |-> <<JAKSEONGJA>>, alphabet |-> "hangul"],
       [label |-> <<SEONG, MYEONG>>, alphabet |-> "hangul"] >>

\* The position after the label of a pattern that starts at position i,
\* 0 when the label is not there; the two syllables of the last label may
\* be apart or together
AfterLabel(pattern, body, i) ==
    IF Len(pattern.label) = 1
    THEN (IF IsTokenAt(body, i, {pattern.label[1]}) THEN i + 1 ELSE 0)
    ELSE IF IsTokenAt(body, i, {SEONGMYEONG}) THEN i + 1
         ELSE IF /\ IsTokenAt(body, i, {SEONG})
                 /\ IsTokenAt(body, SkipSpaces(body, i + 1), {MYEONG})
              THEN SkipSpaces(body, i + 1) + 1
              ELSE 0

\* The name that a pattern captures from position i on, <<>> without match:
\* Latin letters, or two to four syllables of Hangul
ApplicantAt(pattern, body, i) ==
    LET a == SkipSpaces(body, AfterLabel(pattern, body, i))
        b == IF IsTokenAt(body, a, {":", "-"}) THEN a + 1 ELSE a
        c == SkipSpaces(body, b)
    IN  IF AfterLabel(pattern, body, i) = 0 \/ c > Len(body) THEN <<>>
        ELSE IF pattern.alphabet = "latin"
             THEN (IF body[c] \in LatinWords THEN <<body[c]>> ELSE <<>>)
             ELSE (IF body[c] \in HangulWords /\ Syllables[body[c]] \in 2..4
                   THEN <<body[c]>> ELSE <<>>)

RECURSIVE ApplicantSearch(_, _, _)
\* re.search of a pattern: the name captured by its leftmost match
ApplicantSearch(pattern, body, i) ==
    IF i > Len(body) THEN <<>>
    ELSE IF ApplicantAt(pattern, body, i) # <<>> THEN ApplicantAt(pattern, body, i)
         ELSE ApplicantSearch(pattern, body, i + 1)

RECURSIVE LabelledApplicant(_, _)
\* The loop over APPLICANT_PATTERNS: the first pattern that matches wins
LabelledApplicant(body, k) ==
    IF k > Len(APPLICANT_PATTERNS) THEN <<>>
    ELSE IF ApplicantSearch(APPLICANT_PATTERNS[k], body, 1) # <<>>
         THEN ApplicantSearch(APPLICANT_PATTERNS[k], body, 1)
         ELSE LabelledApplicant(body, k + 1)

RECURSIVE HangulPrefix(_)
\* re.match(r'^([가-힣]+)', text): the Hangul that text starts with
HangulPrefix(text) ==
    IF text # <<>> /\ Head(text) \in HangulWords
    THEN <<Head(text)>> \o HangulPrefix(Tail(text))
    ELSE <<>>

RECURSIVE BeforeBracket(_)
\* text.split('<')[0]
BeforeBracket(text) ==
    IF text = <<>> \/ Head(text) = "<" THEN <<>>
    ELSE <<Head(text)>> \o BeforeBracket(Tail(text))

RECURSIVE strip(_)
strip(text) ==
    IF text # <<>> /\ IsSpace(Head(text)) THEN strip(Tail(text))
    ELSE IF text # <<>> /\ IsSpace(text[Len(text)])
         THEN strip(SubSeq(text, 1, Len(text) - 1))
         ELSE text

_extract_applicant(body, sender_name) ==
    IF LabelledApplicant(body, 1) # <<>> THEN Returned(LabelledApplicant(body, 1))
    ELSE IF sender_name # <<>>
         THEN (IF HangulPrefix(sender_name) # <<>>
               THEN Returned(HangulPrefix(sender_name))
               ELSE Returned(strip(BeforeBracket(sender_name))))
         ELSE Returned(MISANG)

\* The labels as the bodies write them
LabelTexts ==
    {<<SINGOJA>>, <<SINCHEONGJA>>, <<SEONGMYEONG>>, <<IREUM>>, <<JAKSEONGJA>>,
     <<SEONG, " ", MYEONG>>}

ApplicantBodies ==
    {<<>>, <<"Kim">>, <<"HONGGILDONG">>}
    \cup {label \o mark \o <<name>> :
            label \in LabelTexts,
            mark \in {<<":", " ">>, <<" ">>},
            name \in {"Kim", "HONGGILDONG", "GIM"}}
    \cup {label \o <<":">> : label \in LabelTexts}

SenderTokens == {"HONGGILDONG", "Kim", " ", "<", "a@b.c"}

MaxSender == 3

SenderNames ==
    UNION {[1..n -> SenderTokens] : n \in 0..MaxSender}

ApplicantStart ==
    /\ RunInit
    /\ ProbeInit
    /\ MinutesInit
    /\ ClassifyInit
    /\ EntryInit
    /\ time_text = <<>>
    /\ time_result = NotExtracted
    /\ date_text = <<>>
    /\ date_result = NotExtracted
    /\ app_body \in ApplicantBodies
    /\ app_sender \in SenderNames
    /\ app_result = NotExtracted

ExtractApplicant ==
    /\ app_result = NotExtracted
    /\ app_result' = _extract_applicant(app_body, app_sender)
    /\ UNCHANGED <<time_text, time_result, date_text, date_result, app_body, app_sender>>
    /\ UNCHANGED <<runVars, probeVars, minutesVars, classifyVars, entryVars>>

ApplicantNext == ExtractApplicant

ApplicantSpec == ApplicantStart /\ [][ApplicantNext]_vars

\* C25: the applicant returned by parse is never empty: when no labelled
\* field matches and the sender display name yields no name (it is empty,
\* or nothing stands before the '<' of an address), the applicant is the
\* sentinel for unknown.
C25_ApplicantNeverEmpty ==
    app_result # NotExtracted =>
        /\ app_result.outcome = "returned"
        /\ app_result.value # <<>>
        /\ (/\ LabelledApplicant(app_body, 1) = <<>>
            /\ \A i \in 1..Len(app_sender) :
                 app_sender[i] \in {" ", "<"}
                 \/ \E j \in 1..(i - 1) : app_sender[j] = "<")
           => app_result.value = MISANG

-----------------------------------------------------------------------------
(* Properties of the five lists of a run *)

BucketNames == {"vacations", "late_arrivals", "outings", "early_leaves", "unclassified"}

\* The list that the classification of a message names
BucketOf(classification) ==
    CASE classification.category = "VACATION" -> "vacations"
      [] classification.category = "ATTENDANCE"
         /\ classification.sub_type = "LATE_ARRIVAL" -> "late_arrivals"
      [] classification.category = "ATTENDANCE"
         /\ classification.sub_type = "OUTING" -> "outings"
      [] classification.category = "ATTENDANCE"
         /\ classification.sub_type = "EARLY_LEAVE" -> "early_leaves"
      [] OTHER -> "unclassified"

\* The places of the lists that hold an item made from the message i
PlacesOf(i) ==
    {<<b, k>> \in BucketNames \X (1..MaxEmails + 1) :
        k <= Len(buckets[b]) /\ MessageOf(buckets[b][k]) = i}

\* The messages that raise no exception while they are processed
Processed(i) == emails[i].fault \notin {"classify", "parse"}

\* C26: every message processed without an exception is in exactly one of
\* the five lists, the one its classification names; the lists are only
\* appended to, in the order of the messages, so that after a run without
\* error the sizes of the five lists sum to total_count.
C26_OneBucketEach ==
    /\ \A i \in 1..position :
           Processed(i) =>
               /\ Cardinality(PlacesOf(i)) = 1
               /\ \A place \in PlacesOf(i) :
                      place[1] = BucketOf(classify(emails[i].subject, emails[i].body))
    /\ \A b \in BucketNames : \A k \in 1..Len(buckets[b]) :
           /\ MessageOf(buckets[b][k]) \in 1..position
           /\ k > 1 => MessageOf(buckets[b][k - 1]) < MessageOf(buckets[b][k])
    /\ (pc \in {"reporting", "returned"} /\ \A i \in 1..Len(emails) : Processed(i)) =>
           Summary(TRUE).vacations_count + Summary(TRUE).late_arrivals_count
           + Summary(TRUE).outings_count + Summary(TRUE).early_leaves_count
           + Summary(TRUE).unclassified_count = Summary(TRUE).total_count

\* The loop has passed two messages that went to two different lists, none
\* of them the list of vacations
C26_Witness ==
    /\ pc = "reporting"
    /\ Len(emails) = 2
    /\ Processed(1) /\ Processed(2)
    /\ Len(buckets.outings) = 1
    /\ Len(buckets.unclassified) = 1
    /\ MessageOf(buckets.outings[1]) # MessageOf(buckets.unclassified[1])

-----------------------------------------------------------------------------
(* Properties of two runs in a row *)

\* The step is a run over the attendance messages of the run before it
RunOnSameMessages ==
    /\ runs' = runs + 1
    /\ runs > 0
    /\ AllRecords(inbox) = results

\* The names of the employees whose notice the last run has sent
NoticedNames ==
    {deductions[j].english_name :
        j \in {i \in 1..Len(deductions) : deductions[i].email_sent}}

\* C27: when a run has sent the notice of an employee and the next run
\* sees the same attendance messages, with that notice in the history
\* folder, the next run sends no notice for that employee.
C27_NoSecondNotice ==
    [][RunOnSameMessages =>
          \A k \in 1..Len(deductions') :
              deductions'[k].english_name \notin NoticedNames]_vars

-----------------------------------------------------------------------------
(* Properties of a run that cannot read the history *)

\* The run has sent its notices without a history: the folder id was not
\* resolved, or the read of the folder raised
HistoryUnread ==
    /\ SendsNotices(entry_point)
    /\ pc \in {"reporting", "returned"}
    /\ folder_id = None \/ \E k \in 1..Len(io) : io[k] = "fetch_history_raised"

\* C28: when the id of the history folder is unresolved or the read of the
\* folder raises, the run goes on with an empty history: no exception
\* leaves fetch_previous_deductions and every employee's deduction is the
\* one of its accumulated minutes, nothing being already deducted.
C28_EmptyHistoryOnFailure ==
    HistoryUnread =>
        LET records == AttendanceRecords(buckets)
            keys == {records[i].applicant : i \in 1..Len(records)}
        IN  /\ raised = None
            /\ \A key \in keys :
                   EmployeeData(records, key).minutes >= 120 <=>
                       \E j \in 1..Len(run_deductions) :
                           run_deductions[j].korean_name = key
            /\ \A j \in 1..Len(run_deductions) :
                   /\ run_deductions[j].korean_name \in keys
                   /\ run_deductions[j].total_minutes =
                          EmployeeData(records, run_deductions[j].korean_name).minutes
                   /\ run_deductions[j].deducted_minutes =
                          (run_deductions[j].total_minutes \div 120) * 120

\* The read of a folder that holds the notice of an employee has raised,
\* and the run has computed the deduction of that employee again
C28_Witness ==
    /\ HistoryUnread
    /\ pc = "reporting"
    /\ folder = NoticeFolder
    /\ \E k \in 1..Len(io) : io[k] = "fetch_history_raised"
    /\ \E j \in 1..Len(run_deductions) :
           /\ run_deductions[j].korean_name = extract_applicant(Hong)
           /\ run_deductions[j].deducted_minutes = 120

-----------------------------------------------------------------------------
(* The report against the notices *)

\* C30: for the same lists and the same history, the new deduction minutes
\* of the report for a canonical name are the deducted minutes that the
\* deduction computes for that employee, and the balance written in the
\* report lies in 0..119 whenever the total is at least the minutes already
\* deducted.
C30_ReportAgreesWithDeduction ==
    /\ \A i \in 1..Len(log) :
           /\ log[i].english_name \in DOMAIN sheet
           /\ sheet[log[i].english_name].new_deducted_minutes = log[i].deducted_minutes
    /\ \A name \in DOMAIN sheet :
           sheet[name].total_minutes >= sheet[name].already_deducted =>
               sheet[name].remaining_minutes \in 0..119

\* The same for the names that one key of the deduction stands for
C30_SingleKeyAgrees ==
    /\ \A i \in 1..Len(log) :
           (\A j \in 1..Len(log) : log[j].english_name = log[i].english_name => j = i) =>
               /\ log[i].english_name \in DOMAIN sheet
               /\ sheet[log[i].english_name].new_deducted_minutes = log[i].deducted_minutes
    /\ \A name \in DOMAIN sheet :
           sheet[name].total_minutes >= sheet[name].already_deducted =>
               sheet[name].remaining_minutes \in 0..119

====
